---- MODULE Spec2Model ----
(***************************************************************************)
(* A model of the MyDojo repository's operational pieces:                  *)
(*   - the site macros of the design blueprint (navigation menus),         *)
(*   - bin/mydojo-init.sh (PostgreSQL role and databases),                 *)
(*   - bin/mydojo.wsgi and the example Apache configuration,               *)
(*   - the Grunt task 'webui' (vendoring of front-end libraries),          *)
(*   - the master Makefile (GNU make reading and running it).              *)
(* Each piece has its own specification over its own variables; the        *)
(* variables of the other pieces stay at their idle values.                *)
(***************************************************************************)
EXTENDS Integers, Sequences, FiniteSets, TLC

VARIABLES
    menu,        \* the menu tree handed to the macros (mydojo_navbar_main / action menu)
    rendered,    \* the macro that produced `page` ("none" before any rendering)
    page,        \* the sequence of HTML elements the macro emitted
    account,     \* the account the user detail page shows
    viewer,      \* the user the page is rendered for
    current_user,  \* flask_login's current_user of the request
    endpoints,     \* the endpoints registered in the application
    messages,      \* the flashed messages waiting: <<category, message>> pairs
    alertCall      \* the arguments of a direct call of render_alert

\* What the layout reads of the request; no macro changes it.
layoutInputs == <<current_user, endpoints, messages>>

tplVars == <<menu, rendered, page, account, viewer, layoutInputs, alertCall>>

VARIABLES
    pgUp,        \* whether the PostgreSQL server answers psql
    pgRoles,     \* the roles of the PostgreSQL cluster
    pgDatabases, \* its databases
    pgGrants,    \* <<database, role>>: ALL PRIVILEGES on the database granted to the role
    initArgs,    \* the positional parameters mydojo-init.sh was started with
    initPc,      \* the line the script is at
    initEnv,     \* its shell variables USER, PASS, DBNM
    initLoop,    \* the words of the for loop still to do
    initStatus,  \* $? of the last pipeline
    initLog,     \* the psql commands issued so far in this run, each with its outcome
    initRun,     \* 1 in the first run of the script, 2 in the run that follows it
    initFirst    \* what the first run left: roles, databases, privileges, psql outcomes

dbVars == <<pgUp, pgRoles, pgDatabases, pgGrants, initArgs, initPc, initEnv, initLoop,
            initStatus, initLog, initRun, initFirst>>

VARIABLES
    wsgiPc,        \* how far the daemon process is through loading mydojo.wsgi
    wsgiNamespace, \* the names bound in the script's module namespace
    factoryCalls,  \* the calls of application factories made so far
    wsgiThreads    \* per daemon thread: the request it is serving, or Idle

wsgiVars == <<wsgiPc, wsgiNamespace, factoryCalls, wsgiThreads>>

VARIABLES
    nodeModules,  \* the files under node_modules/ (each a path: a sequence of segments)
    staticFiles,  \* the files under the design blueprint's static directory
    gruntGoal,    \* the task grunt was started with
    gruntQueue,   \* the tasks still to run
    gruntLog,     \* the tasks run so far in this run, in order
    gruntCopied,  \* the files copy:vendor wrote in this run
    gruntStatus   \* "none", "running", "done" or "failed"

gruntVars == <<nodeModules, staticFiles, gruntGoal, gruntQueue, gruntLog, gruntCopied,
               gruntStatus>>

VARIABLES
    makefileCfg,  \* the rules of the local file Makefile.cfg, or that it is missing
    venv,         \* what the directory 'venv' holds
    makeGoal,     \* the target named on make's command line ("" when none)
    makeStack,    \* the targets being updated, the innermost last
    makeDone,     \* the targets updated in this run
    makeLog,      \* the commands run so far in this run, each with its exit status
    makeStatus,   \* "none", "running", "done" or an error
    reqFiles,     \* what each pip requirements file lists
    distFiles,    \* the packages in ./dist, each with the run that generated it
    pipInstalled  \* the packages pip installed in this run

makeFiles == <<reqFiles, distFiles, pipInstalled>>
makeVars == <<makefileCfg, venv, makeGoal, makeStack, makeDone, makeLog, makeStatus, makeFiles>>

vars == <<tplVars, dbVars, wsgiVars, gruntVars, makeVars>>

\* What each piece leaves alone: the variables of the other pieces.
tplOthers == <<dbVars, wsgiVars, gruntVars, makeVars>>
dbOthers == <<tplVars, wsgiVars, gruntVars, makeVars>>
wsgiOthers == <<tplVars, dbVars, gruntVars, makeVars>>
gruntOthers == <<tplVars, dbVars, wsgiVars, makeVars>>
makeOthers == <<tplVars, dbVars, wsgiVars, gruntVars>>

(***************************************************************************)
(* Generic helpers.                                                        *)
(***************************************************************************)

\* All sequences over S of length 0..n.
SeqsUpTo(S, n) == UNION {[1..k -> S] : k \in 0..n}

RECURSIVE Concat(_)
\* Concatenation of a sequence of sequences.
Concat(ss) == IF ss = <<>> THEN <<>> ELSE Head(ss) \o Concat(Tail(ss))

(***************************************************************************)
(* SITE MACROS: mydojo/blueprints/design/templates/_macros_site.html       *)
(***************************************************************************)

\* Longest list of entries of a menu and of a submenu.
MaxEntries == 2
MaxSubEntries == 2

\* A child of a submenu: what the macros read of it is is_active(request).
SubEntries == [type : {"link"}, active : BOOLEAN, entries : {<<>>}]

\* A top-level menu entry: its type, the value of is_active(request) for the
\* current request and the result of get_entries().
MenuEntries ==
    [type : {"link"}, active : BOOLEAN, entries : {<<>>}]
    \cup [type : {"submenu"}, active : BOOLEAN, entries : SeqsUpTo(SubEntries, MaxSubEntries)]

Menus == SeqsUpTo(MenuEntries, MaxEntries)

\* One emitted HTML element: its tag, its CSS classes, the menu entry (item) and
\* submenu child (sub) it belongs to (0: none), its href kind and whether the
\* screen-reader marker "(current)" is inside it.
Element(tag, class, item, sub, href, current) ==
    [tag |-> tag, class |-> class, item |-> item, sub |-> sub, href |-> href,
     current |-> current]

\* Lines 25-32: one dropdown item of the main menu.
NavbarSubitem(m, i, j) ==
    LET submenu_subitem_is_active == m[i].entries[j].active
    IN  <<Element("a",
                  {"dropdown-item"} \cup (IF submenu_subitem_is_active THEN {"active"} ELSE {}),
                  i, j,
                  IF submenu_subitem_is_active THEN "#" ELSE "url",
                  submenu_subitem_is_active)>>

\* Lines 11-35: one entry of the main menu.
NavbarItem(m, i) ==
    LET menu_item == m[i]
        menu_item_is_active == menu_item.active
        menu_item_submenu == menu_item.entries
        li == Element("li",
                      {"nav-item"} \cup
                        (IF menu_item.type = "submenu" THEN {"dropdown"}
                         ELSE IF menu_item.active THEN {"active"}
                         ELSE {}),
                      i, 0, "", FALSE)
        a == IF menu_item.type = "submenu"
             THEN Element("a", {"nav-link", "dropdown-toggle"}, i, 0, "#", menu_item_is_active)
             ELSE Element("a", {"nav-link"}, i, 0,
                          IF menu_item_is_active THEN "#" ELSE "url", menu_item_is_active)
        dropdown == IF menu_item.type = "submenu" /\ menu_item_submenu # <<>>
                    THEN <<Element("div", {"dropdown-menu"}, i, 0, "", FALSE)>>
                         \o Concat([j \in 1..Len(menu_item_submenu) |-> NavbarSubitem(m, i, j)])
                    ELSE <<>>
    IN  <<li, a>> \o dropdown

\* Lines 7-39: macro render_navbar_main().
RenderNavbarMain(m) ==
    <<Element("ul", {"navbar-nav", "mr-auto"}, 0, 0, "", FALSE)>>
    \o Concat([i \in 1..Len(m) |-> NavbarItem(m, i)])

\* Lines 76-95: one entry of an action menu.
ActionItem(m, i) ==
    LET menu_item == m[i]
    IN  IF menu_item.type = "submenu"
        THEN <<Element("a", {"btn", "btn-secondary", "btn-sm", "dropdown-toggle"}, i, 0, "#", FALSE),
               Element("ul", {"dropdown-menu"}, i, 0, "", FALSE)>>
             \o [j \in 1..Len(menu_item.entries) |->
                    Element("a", {"dropdown-item"}, i, j, "url", FALSE)]
        ELSE <<Element("a", {"btn", "btn-secondary", "btn-sm"}, i, 0, "url", FALSE)>>

\* The action menu object the macro receives: None, or a menu whose
\* get_entries(item = context_item) gives `entries`.
NoActionMenu == [none |-> TRUE, entries |-> <<>>]
ActionMenu(m) == [none |-> FALSE, entries |-> m]

\* Lines 69-101: macro render_menu_actions(action_menu, context_item, cssclass).
RenderMenuActions(action_menu) ==
    IF ~action_menu.none
    THEN LET menu_item_list == action_menu.entries
         IN  IF menu_item_list # <<>>
             THEN <<Element("div", {"btn-toolbar"}, 0, 0, "", FALSE),
                    Element("div", {"btn-group", "btn-group-sm"}, 0, 0, "", FALSE)>>
                  \o Concat([i \in 1..Len(menu_item_list) |-> ActionItem(menu_item_list, i)])
             ELSE <<>>
    ELSE <<>>

\* Lines 47-52 and 61-66: render_navbar_actions / render_menu_context_actions
\* fall back to the current view's menu when no action menu is given.
WithViewMenu(action_menu, view_menu) ==
    IF action_menu.none THEN view_menu ELSE action_menu

\* No account is shown.
NoItem == [login |-> "", apikey |-> ""]
NoViewer == [login |-> "", key_generate |-> FALSE]

\* Python's None, as a macro argument.
None == "None"

\* The anonymous user of flask_login.
AnonymousUser == [is_authenticated |-> FALSE, login |-> ""]
NoAlertCall == [category |-> "", dismissible |-> TRUE, forceicon |-> None, caller |-> ""]

\* No request is being served: nobody is logged in, nothing is flashed.
LayoutIdle ==
    /\ current_user = AnonymousUser
    /\ endpoints = {}
    /\ messages = <<>>
    /\ alertCall = NoAlertCall

TplStart ==
    /\ menu \in Menus
    /\ rendered = "none"
    /\ page = <<>>
    /\ account = NoItem
    /\ viewer = NoViewer
    /\ LayoutIdle

TplIdle ==
    /\ menu = <<>>
    /\ rendered = "none"
    /\ page = <<>>
    /\ account = NoItem
    /\ viewer = NoViewer
    /\ LayoutIdle

\* The layout calls macros_site.render_navbar_main().
DoRenderNavbarMain ==
    /\ rendered = "none"
    /\ rendered' = "render_navbar_main"
    /\ page' = RenderNavbarMain(menu)
    /\ UNCHANGED <<menu, account, viewer, layoutInputs, alertCall, tplOthers>>

\* A view calls render_menu_actions with its action menu (or None).
DoRenderMenuActions ==
    /\ rendered = "none"
    /\ \E am \in {NoActionMenu, ActionMenu(menu)} :
          page' = RenderMenuActions(am)
    /\ rendered' = "render_menu_actions"
    /\ UNCHANGED <<menu, account, viewer, layoutInputs, alertCall, tplOthers>>

\* A view calls render_navbar_actions without an action menu: the current
\* view's menu is used.
DoRenderNavbarActions ==
    /\ rendered = "none"
    /\ page' = RenderMenuActions(WithViewMenu(NoActionMenu, ActionMenu(menu)))
    /\ rendered' = "render_navbar_actions"
    /\ UNCHANGED <<menu, account, viewer, layoutInputs, alertCall, tplOthers>>

TplNext ==
    \/ DoRenderNavbarMain
    \/ DoRenderMenuActions
    \/ DoRenderNavbarActions

\* The elements of the page that carry CSS class c and belong to entry i, child j.
Marked(c, i, j) ==
    {k \in 1..Len(page) : page[k].item = i /\ page[k].sub = j /\ c \in page[k].class}

\* C1: render_navbar_main marks exactly the active entries: every top-level
\* entry and every submenu child carries the 'active' class if and only if
\* its is_active(request) is true.
C1_ActiveIffIsActive ==
    rendered = "render_navbar_main" =>
        \A i \in 1..Len(menu) :
            /\ (Marked("active", i, 0) # {}) <=> menu[i].active
            /\ \A j \in 1..Len(menu[i].entries) :
                    (Marked("active", i, j) # {}) <=> menu[i].entries[j].active

\* C2: in the main navigation bar and in the action menus alike, a submenu
\* entry whose list of children is empty gets no dropdown container.
C2_NoEmptyDropdown ==
    rendered # "none" =>
        \A i \in 1..Len(menu) :
            (menu[i].type = "submenu" /\ menu[i].entries = <<>>)
                => Marked("dropdown-menu", i, 0) = {}

(***************************************************************************)
(* USER DETAIL PAGE: the contentinner block (src/unnamed/part_004)         *)
(***************************************************************************)

\* The accounts, and the values the API key of an account may have ("" when
\* the account has none).
Logins == {"admin", "alice", "bob"}
ApiKeys == {"", "key-A", "key-B", "key-C"}
Items == [login : Logins, apikey : ApiKeys]

\* The viewers: who is logged in, and whether can_access_endpoint(
\* 'auth_api.key-generate', item) holds for them.
Viewers == [login : Logins, key_generate : BOOLEAN]

\* is_it_me(item): the account shown is the viewer's own.
is_it_me(it, v) == it.login = v.login

\* can_access_endpoint('auth_api.key-generate', item)
can_access_endpoint(it, v) == v.key_generate

\* One emitted element of the detail page: its tag, its CSS classes, its
\* text or value, and the endpoint and account of its link.
Field(tag, class, value, href) ==
    [tag |-> tag, class |-> class, item |-> 0, sub |-> 0, href |-> href, current |-> FALSE,
     value |-> value]

\* Lines 45-52: the row of the login.
RenderLoginRow(it) ==
    <<Field("th", {}, "Login", <<>>), Field("td", {}, it.login, <<>>)>>

RenderApiKeyRow_ShowAlways(it, v) ==
    IF can_access_endpoint(it, v) \/ it.apikey # ""
    THEN <<Field("th", {}, "API access key", <<>>)>>
         \o (IF it.apikey # ""
             THEN <<Field("input", {"form-control"}, it.apikey, <<>>)>>
                  \o <<Field("a", {"btn", "btn-default"},
                              IF ~is_it_me(it, v) THEN "menu_title" ELSE "",
                              <<"auth_api.key-delete", it.login>>)>>
             ELSE <<Field("a", {"btn", "btn-default", "btn-sm"}, "menu_title",
                          <<"auth_api.key-generate", it.login>>)>>)
    ELSE <<>>

\* Lines 89-117: the row of the API access key.
RenderApiKeyRow(it, v) ==
    IF can_access_endpoint(it, v) \/ it.apikey # ""
    THEN <<Field("th", {}, "API access key", <<>>)>>
         \o (IF it.apikey # ""
             THEN (IF is_it_me(it, v)
                   THEN <<Field("input", {"form-control"}, it.apikey, <<>>)>>
                   ELSE <<>>)
                  \o <<Field("a", {"btn", "btn-default"},
                              IF ~is_it_me(it, v) THEN "menu_title" ELSE "",
                              <<"auth_api.key-delete", it.login>>)>>
             ELSE <<Field("a", {"btn", "btn-default", "btn-sm"}, "menu_title",
                          <<"auth_api.key-generate", it.login>>)>>)
    ELSE <<>>

\* The metadata table of the block, as far as the account's login and API
\* key go into it.
RenderUserShow(it, v) == RenderLoginRow(it) \o RenderApiKeyRow(it, v)

UserShowStart ==
    /\ menu = <<>>
    /\ rendered = "none"
    /\ page = <<>>
    /\ account \in Items
    /\ viewer \in Viewers
    /\ LayoutIdle

\* The view renders the detail page of `account` (the template's item) for `viewer`.
DoRenderUserShow ==
    /\ rendered = "none"
    /\ account # NoItem
    /\ rendered' = "users/show"
    /\ page' = RenderUserShow(account, viewer)
    /\ UNCHANGED <<menu, account, viewer, layoutInputs, alertCall, tplOthers>>

UserShowNext == DoRenderUserShow

\* The elements of the page that carry the value x.
Carrying(x) == {k \in 1..Len(page) : page[k].value = x}

\* The elements of the API key row.
ApiKeyRow == {k \in 1..Len(page) : page[k].value = "API access key"}

\* C20: the value of the API key is in the page only when the viewer is the
\* owner of the account; for another viewer the page is the same for any
\* two non-empty key values; and the row of the key is there only when the
\* viewer can access the key-generate endpoint or the account has a key.
C20_ApiKeyOnlyForOwner ==
    rendered = "users/show" =>
        /\ (account.apikey # "" /\ Carrying(account.apikey) # {}) => is_it_me(account, viewer)
        /\ (account.apikey # "" /\ ~is_it_me(account, viewer)) =>
              \A other \in ApiKeys \ {""} :
                  RenderUserShow([account EXCEPT !.apikey = other], viewer) = page
        /\ ApiKeyRow # {} => (can_access_endpoint(account, viewer) \/ account.apikey # "")

C20_Witness ==
    /\ rendered = "users/show"
    /\ account.apikey = "key-A"
    /\ ~is_it_me(account, viewer)
    /\ ~can_access_endpoint(account, viewer)
    /\ ApiKeyRow # {}
    /\ Carrying("key-A") = {}

(***************************************************************************)
(* LAYOUT: the authentication submenu and the flashed messages             *)
(* (_macros_site.html render_submenu_auth, render_alert; the layout in     *)
(* src/unnamed/part_004)                                                   *)
(***************************************************************************)

\* The endpoints the submenu asks check_endpoint_exists about: the
\* authentication blueprints are optional.
AuthEndpoints == {"auth_pwd.login", "auth_dev.login", "auth_pwd.register"}

\* The endpoints the submenu links without asking.
CoreEndpoints == {"users.profile", "logout"}

\* The users a request may be served for.
CurrentUsers ==
    {AnonymousUser} \cup {[is_authenticated |-> TRUE, login |-> l] : l \in Logins}

\* check_endpoint_exists(name): the application has a view of that name.
check_endpoint_exists(eps, name) == name \in eps

\* url_for(name): the URL of the endpoint, a BuildError when there is none.
url_for(eps, name) == IF name \in eps THEN <<name>> ELSE <<"BuildError", name>>

\* One link of the dropdown, lines 116-118 and alike.
DropdownItem(eps, name, text) ==
    <<Field("a", {"dropdown-item"}, text, url_for(eps, name))>>

\* Lines 123-127 and alike: a link that is there only when its endpoint is.
OptionalItem(eps, name, text) ==
    IF check_endpoint_exists(eps, name) THEN DropdownItem(eps, name, text) ELSE <<>>

RenderSubmenuAuth_LoginAlways(user, eps) ==
    <<Field("li", {"nav-item", "dropdown"}, "", <<>>),
      Field("a", {"nav-link", "dropdown-toggle"},
            IF user.is_authenticated THEN user.login ELSE "Anonymous", <<"#">>),
      Field("div", {"dropdown-menu"}, "", <<>>)>>
    \o (IF user.is_authenticated
        THEN DropdownItem(eps, "users.profile", "Profile")
             \o DropdownItem(eps, "logout", "Logout")
        ELSE DropdownItem(eps, "auth_pwd.login", "Login (pwd)")
             \o OptionalItem(eps, "auth_dev.login", "Login (dev)")
             \o OptionalItem(eps, "auth_pwd.register", "Register (pwd)"))

\* Lines 104-142: macro render_submenu_auth.
RenderSubmenuAuth(user, eps) ==
    <<Field("li", {"nav-item", "dropdown"}, "", <<>>),
      Field("a", {"nav-link", "dropdown-toggle"},
            IF user.is_authenticated THEN user.login ELSE "Anonymous", <<"#">>),
      Field("div", {"dropdown-menu"}, "", <<>>)>>
    \o (IF user.is_authenticated
        THEN DropdownItem(eps, "users.profile", "Profile")
             \o DropdownItem(eps, "logout", "Logout")
        ELSE OptionalItem(eps, "auth_pwd.login", "Login (pwd)")
             \o OptionalItem(eps, "auth_dev.login", "Login (dev)")
             \o OptionalItem(eps, "auth_pwd.register", "Register (pwd)"))

\* The layout calls macros_site.render_submenu_auth() in the navigation bar.
DoRenderSubmenuAuth ==
    /\ rendered = "none"
    /\ rendered' = "render_submenu_auth"
    /\ page' = RenderSubmenuAuth(current_user, endpoints)
    /\ UNCHANGED <<menu, account, viewer, layoutInputs, alertCall, tplOthers>>

\* The endpoints the links of the dropdown point to.
LinkedEndpoints ==
    {page[k].href : k \in {n \in 1..Len(page) : "dropdown-item" \in page[n].class}}

\* The texts of the links of the dropdown.
LinkTexts ==
    {page[k].value : k \in {n \in 1..Len(page) : "dropdown-item" \in page[n].class}}

\* C21: render_submenu_auth shows an authenticated user exactly the Profile
\* and Logout links and never a login or register link; it shows an
\* anonymous user no Profile or Logout link, and a password-login,
\* developer-login or register link exactly for those of auth_pwd.login,
\* auth_dev.login, auth_pwd.register that exist.
C21_SubmenuAuthLinks ==
    rendered = "render_submenu_auth" =>
        IF current_user.is_authenticated
        THEN /\ LinkedEndpoints = {<<"users.profile">>, <<"logout">>}
             /\ LinkTexts = {"Profile", "Logout"}
        ELSE /\ LinkedEndpoints = {<<e>> : e \in AuthEndpoints \cap endpoints}
             /\ LinkTexts \cap {"Profile", "Logout"} = {}
             /\ ("Login (pwd)" \in LinkTexts) <=> ("auth_pwd.login" \in endpoints)
             /\ ("Login (dev)" \in LinkTexts) <=> ("auth_dev.login" \in endpoints)
             /\ ("Register (pwd)" \in LinkTexts) <=> ("auth_pwd.register" \in endpoints)

\* An anonymous user of an application with the developer login only.
C21_Witness ==
    /\ rendered = "render_submenu_auth"
    /\ ~current_user.is_authenticated
    /\ endpoints \cap AuthEndpoints = {"auth_dev.login"}
    /\ LinkTexts = {"Login (dev)"}

\* The categories messages are flashed with ('message' is Flask's default),
\* and their texts.
Categories == {"error", "message", "info", "warning", "success"}
Texts == {"Saved."}
MaxMessages == 2
FlashedMessages == SeqsUpTo(Categories \X Texts, MaxMessages)

\* Icon names a caller may force.
Icons == {"action-save", "modal-question"}

\* The calls of render_alert: the category, the two optional arguments and
\* the text of the call block.
AlertCalls ==
    [category : Categories, dismissible : BOOLEAN, forceicon : Icons \cup {None},
     caller : Texts]

\* Line 172: the defaults of the optional arguments.
DefaultCall(category, text) ==
    [category |-> category, dismissible |-> TRUE, forceicon |-> None, caller |-> text]

\* Jinja's test of a string-or-None value in {% if %}.
Truthy(x) == x # None /\ x # ""

AlertCategory_ErrorOnly(category) ==
    IF category = "error" THEN "danger" ELSE category

\* Lines 173-177: the category the alert is rendered with.
AlertCategory(category) ==
    IF category = "error" THEN "danger"
    ELSE IF category = "message" THEN "info"
    ELSE category

\* get_icon(name): the markup of the icon of that name.
get_icon(name) == <<Field("i", {"icon"}, name, <<>>)>>

\* Lines 172-191: macro render_alert.
RenderAlert(call) ==
    <<Field("div",
            {"alert", "alert-" \o AlertCategory(call.category)}
                \cup (IF call.dismissible THEN {"alert-dismissible"} ELSE {}),
            "", <<>>)>>
    \o (IF call.dismissible
        THEN <<Field("button", {"close"}, "Close", <<>>),
               Field("span", {}, "&times;", <<>>)>>
        ELSE <<>>)
    \o (IF Truthy(call.forceicon)
        THEN get_icon(call.forceicon)
        ELSE get_icon("alert-" \o AlertCategory(call.category)))
    \o <<Field("caller", {}, call.caller, <<>>)>>

\* Layout lines 308-315: one alert for each flashed message, in their order.
RECURSIVE RenderFlashedMessages(_)
RenderFlashedMessages(msgs) ==
    IF msgs = <<>> THEN <<>>
    ELSE RenderAlert(DefaultCall(Head(msgs)[1], Head(msgs)[2]))
         \o RenderFlashedMessages(Tail(msgs))

LayoutStart ==
    /\ menu = <<>>
    /\ rendered = "none"
    /\ page = <<>>
    /\ account = NoItem
    /\ viewer = NoViewer
    /\ current_user \in CurrentUsers
    /\ endpoints \in {CoreEndpoints \cup a : a \in SUBSET AuthEndpoints}
    /\ messages \in FlashedMessages
    /\ alertCall = NoAlertCall

\* The layout renders the flashed messages of the request.
DoRenderFlashedMessages ==
    /\ rendered = "none"
    /\ rendered' = "flashed_messages"
    /\ page' = RenderFlashedMessages(messages)
    /\ UNCHANGED <<menu, account, viewer, layoutInputs, alertCall, tplOthers>>

\* A template calls render_alert itself, as the user forms do with
\* render_alert('info', False).
DoRenderAlert ==
    /\ rendered = "none"
    /\ \E call \in AlertCalls :
          /\ alertCall' = call
          /\ page' = RenderAlert(call)
    /\ rendered' = "render_alert"
    /\ UNCHANGED <<menu, account, viewer, layoutInputs, tplOthers>>

LayoutNext ==
    \/ DoRenderSubmenuAuth
    \/ DoRenderFlashedMessages
    \/ DoRenderAlert

\* The elements of the page that carry CSS class c, in their order.
WithClass(c) == {k \in 1..Len(page) : c \in page[k].class}

\* The k-th alert container of the page.
RECURSIVE NthAlert(_, _)
NthAlert(n, from) ==
    IF "alert" \in page[from].class
    THEN (IF n = 1 THEN from ELSE NthAlert(n - 1, from + 1))
    ELSE NthAlert(n, from + 1)

\* C22: render_alert renders the message as a Bootstrap alert: category
\* 'error' becomes 'danger', 'message' becomes 'info', any other category is
\* used as it is; the icon is forceicon when given, otherwise 'alert-'
\* followed by the mapped category; the close button and the class
\* 'alert-dismissible' are there if and only if dismissible is true; and
\* every flashed message the layout renders is dismissible.
C22_AlertRendering ==
    /\ rendered = "render_alert" =>
          /\ Cardinality(WithClass("alert")) = 1
          /\ \A k \in WithClass("alert") :
                /\ alertCall.category = "error" => "alert-danger" \in page[k].class
                /\ alertCall.category = "message" => "alert-info" \in page[k].class
                /\ alertCall.category \notin {"error", "message"}
                      => ("alert-" \o alertCall.category) \in page[k].class
                /\ Cardinality(page[k].class \ {"alert", "alert-dismissible"}) = 1
                /\ ("alert-dismissible" \in page[k].class) <=> alertCall.dismissible
          /\ (WithClass("close") # {}) <=> alertCall.dismissible
          /\ Cardinality(WithClass("icon")) = 1
          /\ \A k \in WithClass("icon") :
                IF alertCall.forceicon # None
                THEN page[k].value = alertCall.forceicon
                ELSE \E d \in WithClass("alert") :
                        page[k].value \in page[d].class \ {"alert", "alert-dismissible"}
          /\ \E k \in 1..Len(page) : page[k].tag = "caller" /\ page[k].value = alertCall.caller
    /\ rendered = "flashed_messages" =>
          /\ Cardinality(WithClass("alert")) = Len(messages)
          /\ Cardinality(WithClass("close")) = Len(messages)
          /\ WithClass("alert-dismissible") = WithClass("alert")
          /\ \A n \in 1..Len(messages) :
                LET k == NthAlert(n, 1) IN
                    /\ messages[n][1] = "error" => "alert-danger" \in page[k].class
                    /\ messages[n][1] = "message" => "alert-info" \in page[k].class
                    /\ messages[n][1] \notin {"error", "message"}
                          => ("alert-" \o messages[n][1]) \in page[k].class

\* The layout renders two flashed messages, an error and then one of
\* Flask's default category: two dismissible alerts, danger and info, each
\* with the icon of its mapped category.
C22_Witness ==
    /\ rendered = "flashed_messages"
    /\ Len(messages) = 2
    /\ messages[1][1] = "error"
    /\ messages[2][1] = "message"
    /\ "alert-danger" \in page[NthAlert(1, 1)].class
    /\ "alert-info" \in page[NthAlert(2, 1)].class
    /\ {page[k].value : k \in WithClass("icon")} = {"alert-danger", "alert-info"}
    /\ Cardinality(WithClass("close")) = 2

(***************************************************************************)
(* bin/mydojo-init.sh (src/unnamed/part_000)                               *)
(***************************************************************************)

\* Strings are sequences of characters, so that grep can look inside them.
S_mydojo == <<"m", "y", "d", "o", "j", "o">>
S_my == <<"m", "y">>
S_name == <<"n", "a", "m", "e">>
S_app == <<"a", "p", "p">>
S_App == <<"A", "p", "p">>
S_secret == <<"s", "e", "c", "r", "e", "t">>
S_test == <<"_", "t", "e", "s", "t">>
S_postgres == <<"p", "o", "s", "t", "g", "r", "e", "s">>
S_template0 == <<"t", "e", "m", "p", "l", "a", "t", "e", "0">>
S_template1 == <<"t", "e", "m", "p", "l", "a", "t", "e", "1">>
S_usename == <<"u", "s", "e", "n", "a", "m", "e">>
S_datname == <<"d", "a", "t", "n", "a", "m", "e">>

\* The names the user may pass, and the names roles and databases may have
\* before the script runs.
NameUniverse == {S_mydojo, S_my, S_name, S_app}
DbUniverse == NameUniverse \cup {n \o S_test : n \in NameUniverse}

\* How many roles and databases of NameUniverse / DbUniverse exist at the start,
\* besides the ones every cluster has.
MaxRoles == 1
MaxDatabases == 1

\* Every PostgreSQL cluster has these.
BuiltinRoles == {S_postgres}
BuiltinDatabases == {S_postgres, S_template0, S_template1}

\* The names the user may pass: the ones above and one with a capital.
ArgNames == NameUniverse \cup {S_App}

\* The command lines: up to three positional parameters; "" is the empty word.
InitArgLists ==
    {<<>>}
    \cup {<<u>> : u \in ArgNames \cup {<<>>}}
    \cup {<<u, p>> : u \in ArgNames \cup {<<>>}, p \in {S_secret, <<>>}}
    \cup {<<u, p, d>> : u \in ArgNames \cup {<<>>}, p \in {S_secret}, d \in ArgNames}

\* CREATE USER $USER, CREATE DATABASE $dbname and GRANT ... name the object
\* without quotes (lines 40, 51, 53), and PostgreSQL folds an unquoted
\* identifier to lower case: the name stored and looked up is the folded one.
LowerCase == ("A" :> "a")
Fold(name) == [i \in DOMAIN name |-> IF name[i] \in DOMAIN LowerCase THEN LowerCase[name[i]] ELSE name[i]]

\* ${n:-mydojo}: the n-th positional parameter, or 'mydojo' when it is unset or null.
ParamOrDefault(args, n) ==
    IF n <= Len(args) /\ args[n] # <<>> THEN args[n] ELSE S_mydojo

\* Whether pattern p occurs in line s.
Contains(s, p) ==
    \E i \in 0..(Len(s) - Len(p)) : SubSeq(s, i + 1, i + Len(p)) = p

DigitChars == <<"1", "2", "3", "4", "5", "6", "7", "8", "9">>

\* The lines psql prints for a one-column SELECT: the column header, a rule,
\* one line per row and the row count.
PsqlTable(column, rows) ==
    {column, <<"-", "-", "-">>}
    \cup rows
    \cup {IF Cardinality(rows) = 1
          THEN <<"(", "1", " ", "r", "o", "w", ")">>
          ELSE <<"(", IF Cardinality(rows) \in 1..9 THEN DigitChars[Cardinality(rows)] ELSE "0",
                 " ", "r", "o", "w", "s", ")">>}

\* psql ... | grep pattern > /dev/null: 0 when some line contains the pattern.
GrepStatus(lines, pattern) ==
    IF \E l \in lines : Contains(l, pattern) THEN 0 ELSE 1

\* One entry of the log of psql commands.
Psql(cmd, object, role, ok) == [cmd |-> cmd, object |-> object, role |-> role, ok |-> ok]

\* Before the first run is over there is nothing it left.
NoFirstRun == [roles |-> {}, databases |-> {}, grants |-> {}, ok |-> FALSE]

DbStart ==
    /\ pgUp \in BOOLEAN
    /\ \E extra \in SUBSET NameUniverse :
          /\ Cardinality(extra) <= MaxRoles
          /\ pgRoles = BuiltinRoles \cup extra
    /\ \E extra \in SUBSET DbUniverse :
          /\ Cardinality(extra) <= MaxDatabases
          /\ pgDatabases = BuiltinDatabases \cup extra
    /\ pgGrants \in SUBSET ((pgDatabases \ BuiltinDatabases) \X (pgRoles \ BuiltinRoles))
    /\ initArgs \in InitArgLists
    /\ initPc = "start"
    /\ initEnv = [USER |-> <<>>, PASS |-> <<>>, DBNM |-> <<>>]
    /\ initLoop = <<>>
    /\ initStatus = 0
    /\ initLog = <<>>
    /\ initRun = 1
    /\ initFirst = NoFirstRun

DbIdle ==
    /\ pgUp = TRUE
    /\ pgRoles = {}
    /\ pgDatabases = {}
    /\ pgGrants = {}
    /\ initArgs = <<>>
    /\ initPc = "idle"
    /\ initEnv = [USER |-> <<>>, PASS |-> <<>>, DBNM |-> <<>>]
    /\ initLoop = <<>>
    /\ initStatus = 0
    /\ initLog = <<>>
    /\ initRun = 1
    /\ initFirst = NoFirstRun

\* Lines 28-32: the parameters, and the list of the for loop (line 46).
InitReadArgs ==
    /\ initPc = "start"
    /\ initEnv' = [USER |-> ParamOrDefault(initArgs, 1),
                   PASS |-> ParamOrDefault(initArgs, 2),
                   DBNM |-> ParamOrDefault(initArgs, 3)]
    /\ initPc' = "check_user"
    /\ UNCHANGED <<pgUp, pgRoles, pgDatabases, pgGrants, initArgs, initLoop, initStatus,
                   initLog, initRun, initFirst, dbOthers>>

\* Lines 37-38: SELECT usename ... | grep $USER.
InitCheckUser ==
    /\ initPc = "check_user"
    /\ initStatus' = GrepStatus(IF pgUp THEN PsqlTable(S_usename, pgRoles) ELSE {},
                                initEnv.USER)
    /\ initLog' = Append(initLog, Psql("SELECT usename", <<>>, <<>>, pgUp))
    /\ initPc' = IF initStatus' # 0 THEN "create_user" ELSE "loop"
    /\ initLoop' = <<initEnv.DBNM, initEnv.DBNM \o S_test>>
    /\ UNCHANGED <<pgUp, pgRoles, pgDatabases, pgGrants, initArgs, initEnv, initRun, initFirst,
                   dbOthers>>

\* Line 40: CREATE USER $USER WITH PASSWORD '$PASS'.
InitCreateUser ==
    /\ initPc = "create_user"
    /\ LET ok == pgUp /\ Fold(initEnv.USER) \notin pgRoles
       IN  /\ pgRoles' = IF ok THEN pgRoles \cup {Fold(initEnv.USER)} ELSE pgRoles
           /\ initLog' = Append(initLog, Psql("CREATE USER", <<>>, initEnv.USER, ok))
    /\ initPc' = "loop"
    /\ UNCHANGED <<pgUp, pgDatabases, pgGrants, initArgs, initEnv, initLoop, initStatus,
                   initRun, initFirst, dbOthers>>

\* Lines 46-49: the next word of the loop; SELECT datname ... | grep $dbname.
InitCheckDatabase ==
    /\ initPc = "loop"
    /\ initLoop # <<>>
    /\ initStatus' = GrepStatus(IF pgUp THEN PsqlTable(S_datname, pgDatabases) ELSE {},
                                Head(initLoop))
    /\ initLog' = Append(initLog, Psql("SELECT datname", <<>>, <<>>, pgUp))
    /\ IF initStatus' # 0
       THEN initPc' = "create_db" /\ UNCHANGED initLoop
       ELSE initPc' = "loop" /\ initLoop' = Tail(initLoop)
    /\ UNCHANGED <<pgUp, pgRoles, pgDatabases, pgGrants, initArgs, initEnv, initRun, initFirst,
                   dbOthers>>

InitCreateDatabase_NoGrant ==
    /\ initPc = "create_db"
    /\ LET dbname == Head(initLoop)
           ok == pgUp /\ Fold(dbname) \notin pgDatabases
       IN  /\ pgDatabases' = IF ok THEN pgDatabases \cup {Fold(dbname)} ELSE pgDatabases
           /\ initLog' = Append(initLog, Psql("CREATE DATABASE", dbname, <<>>, ok))
    /\ initPc' = "loop"
    /\ initLoop' = Tail(initLoop)
    /\ UNCHANGED <<pgUp, pgRoles, pgGrants, initArgs, initEnv, initStatus,
                   initRun, initFirst, dbOthers>>

\* Line 51: CREATE DATABASE $dbname.
InitCreateDatabase ==
    /\ initPc = "create_db"
    /\ LET dbname == Head(initLoop)
           ok == pgUp /\ Fold(dbname) \notin pgDatabases
       IN  /\ pgDatabases' = IF ok THEN pgDatabases \cup {Fold(dbname)} ELSE pgDatabases
           /\ initLog' = Append(initLog, Psql("CREATE DATABASE", dbname, <<>>, ok))
    /\ initPc' = "grant"
    /\ UNCHANGED <<pgUp, pgRoles, pgGrants, initArgs, initEnv, initLoop, initStatus,
                   initRun, initFirst, dbOthers>>

\* Line 53: GRANT ALL PRIVILEGES ON DATABASE $dbname TO $USER.
InitGrant ==
    /\ initPc = "grant"
    /\ LET dbname == Head(initLoop)
           ok == pgUp /\ Fold(dbname) \in pgDatabases /\ Fold(initEnv.USER) \in pgRoles
       IN  /\ pgGrants' = IF ok THEN pgGrants \cup {<<Fold(dbname), Fold(initEnv.USER)>>}
                          ELSE pgGrants
           /\ initLog' = Append(initLog, Psql("GRANT", dbname, initEnv.USER, ok))
    /\ initPc' = "loop"
    /\ initLoop' = Tail(initLoop)
    /\ UNCHANGED <<pgUp, pgRoles, pgDatabases, initArgs, initEnv, initStatus, initRun, initFirst,
                   dbOthers>>

\* Line 55: the loop is over and the script ends.
InitDone ==
    /\ initPc = "loop"
    /\ initLoop = <<>>
    /\ initPc' = "done"
    /\ UNCHANGED <<pgUp, pgRoles, pgDatabases, pgGrants, initArgs, initEnv, initLoop,
                   initStatus, initLog, initRun, initFirst, dbOthers>>

\* The script is run once more, with the same arguments.
InitRerun ==
    /\ initPc = "done"
    /\ initRun = 1
    /\ initRun' = 2
    /\ initFirst' = [roles |-> pgRoles, databases |-> pgDatabases, grants |-> pgGrants,
                     ok |-> \A k \in 1..Len(initLog) : initLog[k].ok]
    /\ initPc' = "start"
    /\ initEnv' = [USER |-> <<>>, PASS |-> <<>>, DBNM |-> <<>>]
    /\ initLoop' = <<>>
    /\ initStatus' = 0
    /\ initLog' = <<>>
    /\ UNCHANGED <<pgUp, pgRoles, pgDatabases, pgGrants, initArgs, dbOthers>>

DbNext ==
    \/ InitReadArgs
    \/ InitCheckUser
    \/ InitCreateUser
    \/ InitCheckDatabase
    \/ InitCreateDatabase
    \/ InitGrant
    \/ InitDone
    \/ InitRerun

\* Every psql command the script issued succeeded.
AllPsqlOk == \A k \in 1..Len(initLog) : initLog[k].ok

\* C3: after a run in which every psql command succeeded, a role named
\* exactly USER and databases named exactly DBNM and DBNM_test exist, for any
\* arguments (defaulting to 'mydojo') and any initial roles and databases.
C3_RoleAndDatabasesExist ==
    (initPc = "done" /\ AllPsqlOk) =>
        /\ ParamOrDefault(initArgs, 1) \in pgRoles
        /\ ParamOrDefault(initArgs, 3) \in pgDatabases
        /\ (ParamOrDefault(initArgs, 3) \o S_test) \in pgDatabases

\* The psql commands of the run that change the cluster.
IsChange(e) == e.cmd \in {"CREATE USER", "CREATE DATABASE", "GRANT"}

\* C16: a second run of the script with the same arguments, after a first
\* run in which every psql command succeeded, issues no CREATE USER, CREATE
\* DATABASE or GRANT and leaves roles, databases and privileges as they were.
C16_SecondRunChangesNothing ==
    (initRun = 2 /\ initFirst.ok) =>
        /\ SelectSeq(initLog, IsChange) = <<>>
        /\ pgRoles = initFirst.roles
        /\ pgDatabases = initFirst.databases
        /\ pgGrants = initFirst.grants

\* The databases the run issued a command for.
IssuedFor(cmd) == {initLog[k].object : k \in {i \in DOMAIN initLog : initLog[i].cmd = cmd}}

\* C17: the script issues GRANT ALL PRIVILEGES on a database to USER in a run
\* if and only if the run issued CREATE DATABASE for it (the GRANT follows
\* the CREATE DATABASE at once), and the privileges change by nothing but
\* such a GRANT: those on a database found to exist are left as they were.
C17_GrantIffCreated ==
    /\ [](initPc \notin {"idle", "grant"} => IssuedFor("GRANT") = IssuedFor("CREATE DATABASE"))
    /\ [](\A k \in DOMAIN initLog :
            /\ initLog[k].cmd = "GRANT" =>
                  /\ k > 1
                  /\ initLog[k - 1].cmd = "CREATE DATABASE"
                  /\ initLog[k - 1].object = initLog[k].object
                  /\ initLog[k].role = initEnv.USER
            /\ (initLog[k].cmd = "CREATE DATABASE" /\ k = Len(initLog)) => initPc = "grant")
    /\ [][pgGrants' # pgGrants =>
            /\ initStatus # 0
            /\ Len(initLog') = Len(initLog) + 1
            /\ initLog[Len(initLog)].cmd = "CREATE DATABASE"
            /\ initLog'[Len(initLog')].cmd = "GRANT"
            /\ pgGrants' = pgGrants \cup {<<Fold(initLog[Len(initLog)].object), Fold(initEnv.USER)>>}]_vars

C17_Witness ==
    /\ initPc = "done"
    /\ Cardinality(IssuedFor("GRANT")) = 1
    /\ Len(initLog) = 5
    /\ initLog[1].cmd = "SELECT usename" /\ initLog[2].cmd = "SELECT datname"
    /\ initLog[3].cmd = "SELECT datname" /\ initLog[4].cmd = "CREATE DATABASE"
    /\ initLog[5].cmd = "GRANT" /\ initLog[5].ok

(***************************************************************************)
(* bin/mydojo.wsgi and etc/mydojo-wsgi.conf.example                        *)
(***************************************************************************)

\* WSGIDaemonProcess mydojo ... threads=5
WSGIDaemonThreads == 5

\* WSGIScriptAlias / /usr/local/bin/mydojo.wsgi: the URL prefix (a path is the
\* sequence of its segments, so '/' is the empty sequence) and the script.
WSGIScriptAlias == [url |-> <<>>, script |-> "/usr/local/bin/mydojo.wsgi"]

\* The URL paths clients ask for.
RequestPaths == {<<>>, <<"users">>, <<"users", "list">>}

Idle == <<"idle">>

\* Whether sequence p starts with sequence q.
IsPrefix(q, p) == Len(q) <= Len(p) /\ SubSeq(p, 1, Len(q)) = q

\* The script Apache hands a request for `path` to ("" when no alias matches).
Route(path) ==
    IF IsPrefix(WSGIScriptAlias.url, path) THEN WSGIScriptAlias.script ELSE ""

\* The factory call as it would be with the development configuration class.
WsgiFactoryCall_Development ==
    [factory |-> "mydojo.create_app_full",
     config_object |-> "mydojo.config.DevelopmentConfig",
     config_file |-> "/etc/mydojo/mydojo.conf",
     config_env |-> "FLASK_CONFIG_FILE"]

\* Lines 19-23 of mydojo.wsgi: the factory call.
WsgiFactoryCall ==
    [factory |-> "mydojo.create_app_full",
     config_object |-> "mydojo.config.ProductionConfig",
     config_file |-> "/etc/mydojo/mydojo.conf",
     config_env |-> "FLASK_CONFIG_FILE"]

\* The application objects bound in the namespace: the names bound to the
\* result of a factory call.
BoundApplications ==
    {n \in DOMAIN wsgiNamespace : wsgiNamespace[n] \in 1..Len(factoryCalls)}

WsgiStart ==
    /\ wsgiPc = "unloaded"
    /\ wsgiNamespace = <<>>
    /\ factoryCalls = <<>>
    /\ wsgiThreads = [t \in 1..WSGIDaemonThreads |-> Idle]

WsgiIdle ==
    /\ wsgiPc = "idle"
    /\ wsgiNamespace = <<>>
    /\ factoryCalls = <<>>
    /\ wsgiThreads = <<>>

\* Line 9: import mydojo.
WsgiImport ==
    /\ wsgiPc = "unloaded"
    /\ wsgiPc' = "imported"
    /\ wsgiNamespace' = [n \in {"mydojo"} |-> 0]
    /\ UNCHANGED <<factoryCalls, wsgiThreads, wsgiOthers>>

\* Lines 19-23: application = mydojo.create_app_full(...). The factory returns
\* the application, or raises (the configuration file cannot be read) and the
\* script's load fails with nothing bound.
WsgiCreateApplication ==
    /\ wsgiPc = "imported"
    /\ factoryCalls' = Append(factoryCalls, WsgiFactoryCall)
    /\ \E raised \in BOOLEAN :
          IF raised
          THEN wsgiPc' = "failed" /\ UNCHANGED wsgiNamespace
          ELSE /\ wsgiPc' = "loaded"
               /\ wsgiNamespace' =
                     [n \in DOMAIN wsgiNamespace \cup {"application"} |->
                        IF n = "application" THEN Len(factoryCalls') ELSE wsgiNamespace[n]]
    /\ UNCHANGED <<wsgiThreads, wsgiOthers>>

\* Apache hands a request to an idle thread of the daemon process, for the
\* application the routed script has bound.
ApacheReceive ==
    /\ wsgiPc = "loaded"
    /\ \E t \in 1..WSGIDaemonThreads, path \in RequestPaths :
          /\ wsgiThreads[t] = Idle
          /\ Route(path) = WSGIScriptAlias.script
          /\ wsgiThreads' = [wsgiThreads EXCEPT ![t] = path]
    /\ UNCHANGED <<wsgiPc, wsgiNamespace, factoryCalls, wsgiOthers>>

\* The application has answered the request.
ApacheRespond ==
    /\ \E t \in 1..WSGIDaemonThreads :
          /\ wsgiThreads[t] # Idle
          /\ wsgiThreads' = [wsgiThreads EXCEPT ![t] = Idle]
    /\ UNCHANGED <<wsgiPc, wsgiNamespace, factoryCalls, wsgiOthers>>

WsgiNext ==
    \/ WsgiImport
    \/ WsgiCreateApplication
    \/ ApacheReceive
    \/ ApacheRespond

\* C4: once mydojo.wsgi is loaded, exactly one application object exists, bound
\* to 'application', made by the single call mydojo.create_app_full(
\* 'mydojo.config.ProductionConfig', '/etc/mydojo/mydojo.conf',
\* 'FLASK_CONFIG_FILE'); and every URL path is routed to the script, which
\* the example Apache configuration mounts at '/'.
C4_OneApplication ==
    wsgiPc = "loaded" =>
        /\ factoryCalls = <<[factory |-> "mydojo.create_app_full",
                             config_object |-> "mydojo.config.ProductionConfig",
                             config_file |-> "/etc/mydojo/mydojo.conf",
                             config_env |-> "FLASK_CONFIG_FILE"]>>
        /\ BoundApplications = {"application"}
        /\ wsgiNamespace["application"] = 1
        /\ WSGIScriptAlias.url = <<>>
        /\ \A path \in RequestPaths : Route(path) = "/usr/local/bin/mydojo.wsgi"

\* Witness of C4: the loaded application serves requests for the root path
\* and for a path below it at the same time.
C4_Witness ==
    /\ wsgiPc = "loaded"
    /\ \E t, u \in 1..WSGIDaemonThreads :
          wsgiThreads[t] = <<>> /\ wsgiThreads[u] = <<"users", "list">>

(***************************************************************************)
(* Gruntfile.js                                                            *)
(***************************************************************************)

WebDesignStatic_WebStatic == <<"mydojo", "static">>

\* paths_project.web_design_static
WebDesignStatic == <<"mydojo", "blueprints", "design", "static">>

\* The static vendor directory.
VendorDir == WebDesignStatic \o <<"vendor">>

\* clean.vendor.src as it would be if only one library's directory were cleaned.
CleanVendorSrc_BootstrapOnly == {WebDesignStatic \o <<"vendor", "bootstrap">>}

\* clean.vendor.src
CleanVendorSrc == {WebDesignStatic \o <<"vendor">>}

\* copy.vendor.files: every mapping has expand: true and flatten: true.
CopyVendorFiles ==
    <<[cwd |-> <<"node_modules", "bootstrap", "dist", "css">>, src |-> "./*",
       dest |-> WebDesignStatic \o <<"vendor", "bootstrap", "css">>],
      [cwd |-> <<"node_modules", "bootstrap", "dist", "js">>, src |-> "./*",
       dest |-> WebDesignStatic \o <<"vendor", "bootstrap", "js">>],
      [cwd |-> <<"node_modules", "@fortawesome", "fontawesome-pro", "css">>, src |-> "./**",
       dest |-> WebDesignStatic \o <<"vendor", "font-awesome", "css">>],
      [cwd |-> <<"node_modules", "@fortawesome", "fontawesome-pro", "js">>, src |-> "./**",
       dest |-> WebDesignStatic \o <<"vendor", "font-awesome", "js">>],
      [cwd |-> <<"node_modules", "@fortawesome", "fontawesome-pro", "webfonts">>, src |-> "./**",
       dest |-> WebDesignStatic \o <<"vendor", "font-awesome", "webfonts">>],
      [cwd |-> <<"node_modules", "jquery", "dist">>, src |-> "./**",
       dest |-> WebDesignStatic \o <<"vendor", "jquery", "js">>],
      [cwd |-> <<"node_modules", "popper.js", "dist">>, src |-> "./**",
       dest |-> WebDesignStatic \o <<"vendor", "popper", "js">>]>>

\* grunt.registerTask: the alias tasks and the tasks each stands for.
GruntAliases_CleanFirst ==
    [webui |-> <<"clean:vendor", "copy:vendor", "shell:yarn_install", "shell:pybabel">>,
     default |-> <<"webui">>]
GruntAliases ==
    [webui |-> <<"shell:yarn_install", "shell:pybabel", "clean:vendor", "copy:vendor">>,
     default |-> <<"webui">>]

\* Whether file (a path) lies below directory dir.
IsBelow(dir, file) == Len(dir) < Len(file) /\ SubSeq(file, 1, Len(dir)) = dir

\* Whether the pattern of a mapping matches the path `rel` (relative to cwd)
\* of a file: './*' the files directly in cwd, './**' the files at any depth.
GlobMatches(src, rel) ==
    IF src = "./*" THEN Len(rel) = 1 ELSE Len(rel) >= 1

\* Where mapping f copies the file: flatten keeps only the base name.
FlattenedDest(f, file) == f.dest \o <<file[Len(file)]>>

\* The files copy:vendor writes, given the files under node_modules.
CopyVendorTargets(files) ==
    {FlattenedDest(CopyVendorFiles[k], file) :
        <<k, file>> \in {kf \in (DOMAIN CopyVendorFiles) \X files :
            /\ IsBelow(CopyVendorFiles[kf[1]].cwd, kf[2])
            /\ GlobMatches(CopyVendorFiles[kf[1]].src,
                           SubSeq(kf[2], Len(CopyVendorFiles[kf[1]].cwd) + 1, Len(kf[2])))}}

\* What clean:vendor leaves: the files below none of its paths.
CleanVendorKeeps(files) ==
    {file \in files : \A dir \in CleanVendorSrc : ~IsBelow(dir, file)}

\* The files of the static vendor directory.
VendorFiles == {file \in staticFiles : IsBelow(VendorDir, file)}

\* How many files node_modules holds, and how many files an earlier build or
\* the developer left in the static directory.
MaxNodeFiles == 2
MaxStaleFiles == 1

\* url_for('design.static', filename=...): the static folder of the blueprint
\* 'design', which the file name is relative to.
DesignStaticFolder == <<"mydojo", "blueprints", "design", "static">>

\* The vendor assets the base layout loads (headcss and bodyjs blocks), as
\* the file names given to url_for('design.static', ...).
LayoutVendorAssets ==
    {<<"vendor", "font-awesome", "css", "solid.min.css">>,
     <<"vendor", "font-awesome", "css", "brands.min.css">>,
     <<"vendor", "font-awesome", "css", "fontawesome.min.css">>,
     <<"vendor", "bootstrap", "css", "bootstrap.min.css">>,
     <<"vendor", "jquery", "js", "jquery.min.js">>,
     <<"vendor", "popper", "js", "popper.min.js">>,
     <<"vendor", "bootstrap", "js", "bootstrap.min.js">>}

\* The directory part and the base name of a path.
DirName(path) == SubSeq(path, 1, Len(path) - 1)
BaseName(path) == path[Len(path)]

\* The mappings of copy:vendor that write into the directory of an asset.
MappingsInto(asset) ==
    {k \in DOMAIN CopyVendorFiles :
        CopyVendorFiles[k].dest = DesignStaticFolder \o DirName(asset)}

\* The names of the files directly in the source directory of mapping k: the
\* names of the assets the layout loads from its destination, or else some name.
SourceNames(k) ==
    LET assets == {BaseName(a) : a \in {b \in LayoutVendorAssets : k \in MappingsInto(b)}}
    IN  IF assets = {} THEN {"lib.min.js"} ELSE assets

\* The files that may be found under node_modules: in every source directory
\* the files named above and, in a subdirectory, one more file.
NodeUniverse ==
    UNION {{CopyVendorFiles[k].cwd \o <<n>> : n \in SourceNames(k)}
           \cup {CopyVendorFiles[k].cwd \o <<"umd", "lib.min.js">>} :
           k \in DOMAIN CopyVendorFiles}

\* The files that may be in the static directory before a build.
StaleUniverse ==
    {CopyVendorFiles[k].dest \o <<n>> :
        k \in DOMAIN CopyVendorFiles, n \in {"lib.min.js", "old.min.js"}}
    \cup {VendorDir \o <<"datatables", "js", "old.min.js">>}

\* The application's own style sheet, which the layout loads.
OwnStaticFiles == {WebDesignStatic \o <<"css", "mydojo.css">>}

GruntStart ==
    /\ \E files \in SUBSET NodeUniverse :
          Cardinality(files) <= MaxNodeFiles /\ nodeModules = files
    /\ \E stale \in SUBSET StaleUniverse :
          Cardinality(stale) <= MaxStaleFiles /\ staticFiles = OwnStaticFiles \cup stale
    /\ gruntGoal = ""
    /\ gruntQueue = <<>>
    /\ gruntLog = <<>>
    /\ gruntCopied = {}
    /\ gruntStatus = "none"

GruntIdle ==
    /\ nodeModules = {}
    /\ staticFiles = {}
    /\ gruntGoal = ""
    /\ gruntQueue = <<>>
    /\ gruntLog = <<>>
    /\ gruntCopied = {}
    /\ gruntStatus = "idle"

\* grunt <task>: a run starts with the named task queued.
GruntInvoke ==
    /\ gruntStatus \in {"none", "done", "failed"}
    /\ \E task \in {"webui", "default"} :
          /\ gruntGoal' = task
          /\ gruntQueue' = <<task>>
    /\ gruntLog' = <<>>
    /\ gruntCopied' = {}
    /\ gruntStatus' = "running"
    /\ UNCHANGED <<nodeModules, staticFiles, gruntOthers>>

\* An alias task is replaced by the tasks it stands for.
GruntExpandAlias ==
    /\ gruntStatus = "running"
    /\ gruntQueue # <<>>
    /\ Head(gruntQueue) \in DOMAIN GruntAliases
    /\ gruntQueue' = GruntAliases[Head(gruntQueue)] \o Tail(gruntQueue)
    /\ UNCHANGED <<nodeModules, staticFiles, gruntGoal, gruntLog, gruntCopied, gruntStatus,
                   gruntOthers>>

\* A task failed: grunt aborts the run, the tasks left are not run.
GruntAbort ==
    /\ gruntQueue' = <<>>
    /\ gruntStatus' = "failed"

\* A task succeeded: grunt goes on with the next one.
GruntProceed ==
    /\ gruntQueue' = Tail(gruntQueue)
    /\ gruntStatus' = "running"

\* shell:yarn_install: 'yarn install' brings node_modules in line with the
\* lock file (a file appears or disappears, or nothing changes), or fails.
GruntYarnInstall ==
    /\ gruntStatus = "running"
    /\ gruntQueue # <<>>
    /\ Head(gruntQueue) = "shell:yarn_install"
    /\ gruntLog' = Append(gruntLog, Head(gruntQueue))
    /\ \E ok \in BOOLEAN :
          IF ok
          THEN /\ \E files \in {nodeModules} \cup {nodeModules \cup {f} : f \in NodeUniverse}
                                \cup {nodeModules \ {f} : f \in NodeUniverse} :
                     /\ Cardinality(files) <= MaxNodeFiles
                     /\ nodeModules' = files
               /\ GruntProceed
          ELSE /\ UNCHANGED nodeModules
               /\ GruntAbort
    /\ UNCHANGED <<staticFiles, gruntGoal, gruntCopied, gruntOthers>>

\* shell:pybabel: 'make pybabel-compile'.
GruntPybabel ==
    /\ gruntStatus = "running"
    /\ gruntQueue # <<>>
    /\ Head(gruntQueue) = "shell:pybabel"
    /\ gruntLog' = Append(gruntLog, Head(gruntQueue))
    /\ \E ok \in BOOLEAN : IF ok THEN GruntProceed ELSE GruntAbort
    /\ UNCHANGED <<nodeModules, staticFiles, gruntGoal, gruntCopied, gruntOthers>>

\* clean:vendor: deletes everything below its paths; when it fails, some of it.
GruntCleanVendor ==
    /\ gruntStatus = "running"
    /\ gruntQueue # <<>>
    /\ Head(gruntQueue) = "clean:vendor"
    /\ gruntLog' = Append(gruntLog, Head(gruntQueue))
    /\ \E ok \in BOOLEAN :
          IF ok
          THEN /\ staticFiles' = CleanVendorKeeps(staticFiles)
               /\ GruntProceed
          ELSE /\ \E left \in SUBSET (staticFiles \ CleanVendorKeeps(staticFiles)) :
                     staticFiles' = CleanVendorKeeps(staticFiles) \cup left
               /\ GruntAbort
    /\ UNCHANGED <<nodeModules, gruntGoal, gruntCopied, gruntOthers>>

\* copy:vendor: writes every target; when it fails, some of them.
GruntCopyVendor ==
    /\ gruntStatus = "running"
    /\ gruntQueue # <<>>
    /\ Head(gruntQueue) = "copy:vendor"
    /\ gruntLog' = Append(gruntLog, Head(gruntQueue))
    /\ \E ok \in BOOLEAN :
          IF ok
          THEN /\ gruntCopied' = CopyVendorTargets(nodeModules)
               /\ GruntProceed
          ELSE /\ gruntCopied' \in SUBSET CopyVendorTargets(nodeModules)
               /\ GruntAbort
    /\ staticFiles' = staticFiles \cup gruntCopied'
    /\ UNCHANGED <<nodeModules, gruntGoal, gruntOthers>>

\* The queue is empty: the run is done, without errors.
GruntDone ==
    /\ gruntStatus = "running"
    /\ gruntQueue = <<>>
    /\ gruntStatus' = "done"
    /\ UNCHANGED <<nodeModules, staticFiles, gruntGoal, gruntQueue, gruntLog, gruntCopied,
                   gruntOthers>>

GruntNext ==
    \/ GruntInvoke
    \/ GruntExpandAlias
    \/ GruntYarnInstall
    \/ GruntPybabel
    \/ GruntCleanVendor
    \/ GruntCopyVendor
    \/ GruntDone

\* C5: a successful run of 'webui' (or of its alias 'default') has run yarn
\* install, the translation compilation, clean:vendor and copy:vendor, in this
\* order, and the static vendor directory then holds exactly the files
\* copy:vendor copied from node_modules in that run.
C5_VendorIsWhatWasCopied ==
    gruntStatus = "done" =>
        /\ gruntLog = <<"shell:yarn_install", "shell:pybabel", "clean:vendor", "copy:vendor">>
        /\ VendorFiles = gruntCopied
        /\ gruntCopied = CopyVendorTargets(nodeModules)

\* Witness of C5: a run of 'default' is done, a file was copied, and a file
\* that an earlier build had left in the vendor directory is gone.
C5_Witness ==
    /\ gruntStatus = "done"
    /\ gruntGoal = "default"
    /\ gruntCopied # {}
    /\ (VendorDir \o <<"datatables", "js", "old.min.js">>) \notin staticFiles
    /\ (WebDesignStatic \o <<"css", "mydojo.css">>) \in staticFiles

\* The two shell tasks of 'webui'.
ShellTasks == {"shell:yarn_install", "shell:pybabel"}

\* C18: when shell:yarn_install or shell:pybabel fails during 'webui', the
\* run stops there: clean:vendor and copy:vendor do not run, and no step of
\* the run up to there deleted or changed a file of the static directory.
C18_ShellFailureStopsRun ==
    /\ []((gruntStatus = "failed" /\ gruntLog[Len(gruntLog)] \in ShellTasks) =>
            /\ gruntQueue = <<>>
            /\ \A k \in DOMAIN gruntLog : gruntLog[k] \in ShellTasks
            /\ gruntCopied = {})
    /\ [][(gruntQueue # <<>> /\ Head(gruntQueue) \in ShellTasks) =>
            staticFiles' = staticFiles]_vars
    /\ [][staticFiles' # staticFiles =>
            /\ gruntQueue # <<>>
            /\ Head(gruntQueue) \in {"clean:vendor", "copy:vendor"}
            /\ \A k \in DOMAIN gruntLog : gruntLog[k] \in ShellTasks \cup {"clean:vendor"}]_vars

C18_Witness ==
    /\ gruntStatus = "failed"
    /\ gruntGoal = "webui"
    /\ gruntLog = <<"shell:yarn_install", "shell:pybabel">>
    /\ VendorFiles # {}

\* C19: every vendor asset the layout loads lies directly in a directory
\* copy:vendor writes into, at the flattened place: a finished run has put
\* there the file of that name found in the mapping's source directory.
C19_LayoutAssetsAreCopied ==
    \A a \in LayoutVendorAssets :
        /\ MappingsInto(a) # {}
        /\ \A k \in MappingsInto(a) :
              /\ FlattenedDest(CopyVendorFiles[k], CopyVendorFiles[k].cwd \o <<BaseName(a)>>)
                    = DesignStaticFolder \o a
              /\ (gruntStatus = "done" /\ (CopyVendorFiles[k].cwd \o <<BaseName(a)>>) \in nodeModules)
                    => (DesignStaticFolder \o a) \in staticFiles

C19_Witness ==
    /\ gruntStatus = "done"
    /\ \E a \in LayoutVendorAssets : (DesignStaticFolder \o a) \in gruntCopied

(***************************************************************************)
(* Makefile, Makefile.inc, and GNU make reading and running them           *)
(***************************************************************************)

\* A recipe line that prints: `name` is the make target the line lists
\* ("" for a line that names none).
Echo(name) == [op |-> "echo", arg |-> name, ignore |-> FALSE]

\* A recipe line that runs a command which may fail.
Sh_ErrorsIgnored(command) == [op |-> "sh", arg |-> command, ignore |-> TRUE]
Sh(command) == [op |-> "sh", arg |-> command, ignore |-> FALSE]

\* A recipe line with the prefix '-': make ignores its exit status.
ShIgnored_Strict(command) == [op |-> "sh", arg |-> command, ignore |-> FALSE]
ShIgnored(command) == [op |-> "sh", arg |-> command, ignore |-> TRUE]

\* A recipe line with an effect of its own (see RunLine).
Special(op, arg) == [op |-> op, arg |-> arg, ignore |-> FALSE]

Rule(target, prereqs, recipe) == [target |-> target, prereqs |-> prereqs, recipe |-> recipe]

Include(file) == [include |-> file]

\* Makefile lines 59-122: the recipe of 'help'.
HelpRecipe ==
    <<Echo(""), Echo(""), Echo(""), Echo(""), Echo(""), Echo(""), Echo(""), Echo(""),
      Echo(""), Echo(""), Echo(""), Echo(""), Echo(""),
      Echo(""), Echo(""),
      Echo("default"), Echo("help"), Echo("show-version"), Echo("show-envstamp"),
      Echo("develop"), Echo("deps"), Echo("clean"), Echo("docs"), Echo("check"),
      Echo("build-whl"),
      Echo(""), Echo(""), Echo(""),
      Echo("deps-prerequisites"), Echo("deps-python"), Echo("deps-python-dev"),
      Echo("deps-python-upgrade"), Echo("deps-python-upgrade-dev"), Echo("deps-webui"),
      Echo("deps-webui-upgrade"), Echo("deps-postgresql"),
      Echo(""),
      Echo("clean-pycs"), Echo("clean-build-docs"), Echo("clean-build-python"),
      Echo(""),
      Echo("docs-html"), Echo("docs-view"),
      Echo(""),
      Echo("pybabel-patch"), Echo("pybabel-init"), Echo("pybabel-pull"),
      Echo("pybabel-extract"), Echo("pybabel-update"), Echo("pybabel-compile"),
      Echo(""),
      Echo("check-pyflakes"), Echo("check-pylint"), Echo("check-test"),
      Echo(""),
      Echo("build-webui"), Echo("build-package-whl"),
      Echo(""),
      Echo("deploy"),
      Echo(""), Echo(""), Echo("")>>

\* Makefile lines 140-172: the recipe of 'develop'.
DevelopRecipe ==
    <<Echo(""), Echo(""), Echo(""), Echo(""), Echo(""),
      Special("venv_if_absent", "python3 -m venv venv"),
      Echo(""), Echo(""), Echo(""), Echo(""),
      Special("ls_venv_bin_grep", "python"),
      Special("ls_venv_bin_grep", "pip"),
      Echo(""),
      Special("activate_and", "pip install -r etc/requirements.pip"),
      Echo(""),
      Special("activate_and", "pip install -r etc/requirements-dev.pip"),
      Echo(""),
      Special("activate_and", "pip install -e .[dev]"),
      Echo(""), Echo(""), Echo(""), Echo(""), Echo("")>>

\* Makefile.inc (the rules; its variables are colour codes).
MakefileInc ==
    <<Rule("show-version", <<"FORCE">>, <<Sh("python -c import mydojo; print(mydojo.__version__)")>>),
      Rule("show-envstamp", <<"FORCE">>,
           <<Echo(""), Echo(""), Echo(""), Echo(""), Echo(""), Echo(""), Echo(""), Echo(""),
             Echo(""), Sh("pip freeze")>>)>>

\* The master Makefile, in the order of the file.
Makefile ==
    <<Rule("default", <<"help">>, <<>>),
      Include("Makefile.inc"),
      Include("Makefile.cfg"),
      Rule("help", <<>>, HelpRecipe),
      Rule("develop", <<"FORCE">>, DevelopRecipe),
      Rule("deps", <<"deps-prerequisites", "deps-python", "deps-python-dev", "deps-webui",
                     "deps-postgresql", "pybabel-compile">>, <<>>),
      Rule("clean", <<"clean-pycs", "clean-build-docs", "clean-build-python">>, <<>>),
      Rule("docs", <<"docs-html">>, <<>>),
      Rule("check", <<"pyflakes", "pylint", "test">>, <<>>),
      Rule("build-whl", <<"clean", "build-webui", "build-package-whl">>, <<>>),
      Rule("deps-prerequisites", <<"FORCE">>,
           <<Echo(""), Special("for_prereq", "command -v"), Echo("")>>),
      Rule("deps-python", <<"FORCE">>,
           <<Echo(""), Sh("pip --version"),
             Sh("pip install -r etc/requirements.pip --upgrade"), Echo("")>>),
      Rule("deps-python-dev", <<"FORCE">>,
           <<Echo(""), Sh("pip --version"),
             Sh("pip install -r etc/requirements-dev.pip"), Echo("")>>),
      Rule("deps-python-upgrade", <<"FORCE">>,
           <<Echo(""), Sh("pip --version"),
             Sh("pip install -r etc/requirements-latest.pip --upgrade"), Echo("")>>),
      Rule("deps-python-upgrade-dev", <<"FORCE">>,
           <<Echo(""), Sh("pip --version"),
             Sh("pip install -r etc/requirements-latest-dev.pip --upgrade"), Echo("")>>),
      Rule("deps-webui", <<"FORCE">>, <<Echo(""), Sh("yarn install"), Echo("")>>),
      Rule("deps-webui-upgrade", <<"FORCE">>, <<Echo(""), Sh("yarn upgrade"), Echo("")>>),
      Rule("deps-postgresql", <<"FORCE">>, <<Echo(""), Sh("./bin/mydojo-init.sh"), Echo("")>>),
      Rule("run-webui-dev", <<>>, <<Echo(""), Sh("mydojo-cli run")>>),
      Rule("clean-pycs", <<"FORCE">>,
           <<Echo(""), Sh("find . -name *.pyc -delete"), Sh("find . -name *.pyo -delete"),
             Sh("find . -name *~ -delete"), Echo("")>>),
      Rule("clean-build-docs", <<"FORCE">>,
           <<Echo(""), Sh("rm --force --recursive doc/build/"),
             Sh("rm --force --recursive doc/source/_apidoc/"), Echo("")>>),
      Rule("clean-build-python", <<"FORCE">>,
           <<Echo(""), Sh("rm --force --recursive build/"), Sh("rm --force --recursive dist/"),
             Sh("rm --force --recursive *.egg-info"), Echo("")>>),
      Rule("docs-help", <<"FORCE">>, <<Sh("sphinx-build -M help"), Echo("")>>),
      Rule("docs-html", <<"FORCE">>,
           <<Echo(""), Sh("sphinx-apidoc"), Echo(""), Sh("sphinx-build -M html"), Echo("")>>),
      Rule("docs-view", <<"FORCE">>, <<Echo(""), Sh("x-www-browser doc/build/html/manual.html")>>),
      Rule("pybabel-patch", <<"FORCE">>,
           <<Echo(""), Sh("cp util/babel.messages.frontend.py.patch /var/tmp/"),
             Sh("cd / && patch -p0"), Echo("")>>),
      Rule("pybabel-extract", <<"FORCE">>, <<Echo(""), Sh("pybabel extract"), Echo("")>>),
      Rule("pybabel-init", <<"FORCE">>, <<Echo(""), Sh("pybabel init"), Echo("")>>),
      Rule("pybabel-update", <<"FORCE">>, <<Echo(""), Sh("pybabel update"), Echo("")>>),
      Rule("pybabel-pull", <<"pybabel-extract", "pybabel-update">>, <<>>),
      Rule("pybabel-compile", <<"FORCE">>, <<Echo(""), Sh("pybabel compile"), Echo("")>>),
      Rule("pyflakes", <<"FORCE">>,
           <<Echo(""), Echo(""), Echo(""), Echo(""), ShIgnored("python -m pyflakes"), Echo("")>>),
      Rule("pylint", <<"FORCE">>,
           <<Echo(""), Echo(""), Echo(""), Echo(""), ShIgnored("python -m pylint"), Echo("")>>),
      Rule("test", <<"FORCE">>,
           <<Echo(""), Echo(""), Echo(""), Sh("nosetests"), Echo("")>>),
      Rule("build-webui", <<"FORCE">>, <<Echo(""), Sh("grunt webui"), Echo("")>>),
      Rule("build-package-whl", <<"FORCE">>,
           <<Echo(""), Echo(""), Echo(""), Sh("python setup.py sdist bdist_wheel"), Echo("")>>),
      Rule("deploy", <<"FORCE">>, <<Echo(""), Sh("scp dist/mydojo*.whl"), Echo("")>>),
      Rule("FORCE", <<>>, <<>>)>>

\* Makefile.cfg holds the local configuration and is not part of the
\* repository: it may be missing, hold variables only, or add a target.
MakefileCfgs ==
    {[present |-> FALSE, rules |-> <<>>],
     [present |-> TRUE, rules |-> <<>>],
     [present |-> TRUE,
      rules |-> <<Rule("deploy-local", <<"FORCE">>, <<Sh("scp dist/mydojo*.whl localhost:")>>)>>]}

IsInclude(item) == "include" \in DOMAIN item

\* The rules make has after reading the makefile `items`, every include
\* directive replaced by the rules of the file it names.
ReadMakefile(items, cfg) ==
    Concat([k \in 1..Len(items) |->
        IF IsInclude(items[k])
        THEN IF items[k].include = "Makefile.inc" THEN MakefileInc ELSE cfg.rules
        ELSE <<items[k]>>])

\* The rules of this run.
MakeRules == ReadMakefile(Makefile, makefileCfg)

\* The targets that have a rule.
DefinedTargets(rules) == {rules[k].target : k \in 1..Len(rules)}

\* The prerequisites of target t: those of all its rules, in order.
PrereqsOf_Reversed(rules, t) ==
    LET p == Concat([k \in 1..Len(rules) |-> IF rules[k].target = t THEN rules[k].prereqs ELSE <<>>])
    IN  [k \in DOMAIN p |-> p[Len(p) + 1 - k]]
PrereqsOf(rules, t) ==
    Concat([k \in 1..Len(rules) |-> IF rules[k].target = t THEN rules[k].prereqs ELSE <<>>])

\* The recipe of target t: the one of its last rule that has a recipe.
RecipeOf(rules, t) ==
    LET with == {k \in 1..Len(rules) : rules[k].target = t /\ rules[k].recipe # <<>>}
    IN  IF with = {} THEN <<>>
        ELSE rules[CHOOSE k \in with : \A l \in with : l <= k].recipe

\* The default goal: the target of the first rule read.
DefaultGoal_AfterIncludes(rules) == rules[2].target
DefaultGoal(rules) == rules[1].target

\* Makefile line 213: for prereq in $(PYTHON) $(PIP) yarn grunt psql, with
\* PYTHON = python and PIP = pip (lines 35-36).
PrereqCommands == <<"python", "pip", "yarn", "grunt", "psql">>

\* What the directory 'venv' may hold: whether it exists, and whether
\* bin/python*, bin/pip* and bin/activate are in it.
VenvState(dir, python, pip, activate) ==
    [dir |-> dir, python |-> python, pip |-> pip, activate |-> activate]
VenvAbsent == VenvState(FALSE, FALSE, FALSE, FALSE)
VenvComplete == VenvState(TRUE, TRUE, TRUE, TRUE)
VenvStates ==
    {VenvAbsent, VenvState(TRUE, FALSE, FALSE, FALSE), VenvState(TRUE, TRUE, FALSE, FALSE),
     VenvState(TRUE, TRUE, TRUE, FALSE), VenvState(TRUE, TRUE, FALSE, TRUE), VenvComplete}

\* One command that ran: the target whose recipe it belongs to, the command,
\* its exit status, and whether it ran with the virtual environment's pip.
Ran(target, cmd, arg, ok, inVenv) ==
    [target |-> target, cmd |-> cmd, arg |-> arg, ok |-> ok, inVenv |-> inVenv]

\* What running a recipe line gives: the commands that ran, the exit status
\* of the line and what 'venv' holds afterwards.
Outcome(events, ok, v) == [events |-> events, ok |-> ok, venv |-> v]

\* Lines 213-221: the loop over the prerequisites, given the commands found
\* on the PATH: it probes them in order and exits 1 at the first one missing.
ForPrereq_NoExit(t, found) ==
    Outcome([k \in DOMAIN PrereqCommands |->
                Ran(t, "command -v", PrereqCommands[k], PrereqCommands[k] \in found, FALSE)],
            TRUE, venv)
ForPrereq(t, found) ==
    LET missing == {k \in DOMAIN PrereqCommands : PrereqCommands[k] \notin found}
        last == IF missing = {} THEN Len(PrereqCommands)
                ELSE CHOOSE k \in missing : \A l \in missing : k <= l
    IN  Outcome([k \in 1..last |->
                    Ran(t, "command -v", PrereqCommands[k], PrereqCommands[k] \in found, FALSE)],
                missing = {}, venv)

\* Lines 146-151: if [ -d venv ]; then echo; else python3 -m venv venv; echo; fi.
\* The status of the line is the status of the last echo. A python3 -m venv
\* that fails may leave anything behind.
VenvIfAbsent(t, c) ==
    IF venv.dir
    THEN {Outcome(<<Ran(t, "echo", "", TRUE, FALSE)>>, TRUE, venv)}
    ELSE {Outcome(<<Ran(t, "sh", c.arg, TRUE, FALSE), Ran(t, "echo", "", TRUE, FALSE)>>,
                  TRUE, VenvComplete)}
         \cup {Outcome(<<Ran(t, "sh", c.arg, FALSE, FALSE), Ran(t, "echo", "", TRUE, FALSE)>>,
                        TRUE, v) : v \in VenvStates}

\* Lines 156-157: ls -al venv/bin | grep python (or pip): the status is grep's.
LsVenvBinGrep(t, c) ==
    {Outcome(<<Ran(t, "ls -al venv/bin | grep", c.arg,
                   IF c.arg = "python" THEN venv.python ELSE venv.pip, FALSE)>>,
             IF c.arg = "python" THEN venv.python ELSE venv.pip, venv)}

\* Lines 160, 163, 166: . venv/bin/activate && pip install ...
ActivateAnd(t, c) ==
    IF venv.activate
    THEN {Outcome(<<Ran(t, "sh", c.arg, ok, venv.pip)>>, ok, venv) : ok \in BOOLEAN}
    ELSE {Outcome(<<Ran(t, ". venv/bin/activate", "", FALSE, FALSE)>>, FALSE, venv)}

\* The possible outcomes of recipe line c of target t.
RunLine(t, c) ==
    CASE c.op = "echo" -> {Outcome(<<Ran(t, "echo", c.arg, TRUE, FALSE)>>, TRUE, venv)}
      [] c.op = "sh" -> {Outcome(<<Ran(t, "sh", c.arg, ok, FALSE)>>, ok, venv) : ok \in BOOLEAN}
      [] c.op = "for_prereq" -> {ForPrereq(t, found) :
                                    found \in SUBSET {PrereqCommands[k] : k \in DOMAIN PrereqCommands}}
      [] c.op = "venv_if_absent" -> VenvIfAbsent(t, c)
      [] c.op = "ls_venv_bin_grep" -> LsVenvBinGrep(t, c)
      [] c.op = "activate_and" -> ActivateAnd(t, c)

\* development.rst: the targets the documentation tells the developer to make.
DocumentedTargets ==
    {"help", "deps-prerequisites", "venv", "develop", "deps-python", "deps-python-dev",
     "deps-webui", "deps-python-upgrade", "deps-python-upgrade-dev", "deps-webui-upgrade",
     "run-webui-dev", "docs", "docs-view", "clean-build-docs", "pybabel-pull",
     "pybabel-compile", "pyflakes", "pylint", "test", "build-webui", "build-whl"}

\* The target names 'make help' lists.
HelpListed == {HelpRecipe[k].arg : k \in DOMAIN HelpRecipe} \ {""}

\* What may be named on make's command line: nothing, a target of the
\* makefiles, or a target the help text or the documentation names.
CommandLineGoals ==
    {""} \cup DocumentedTargets \cup HelpListed
    \cup UNION {DefinedTargets(ReadMakefile(Makefile, cfg)) : cfg \in MakefileCfgs}

\* The pip requirements files: the ones the Makefile reads (lines 160, 163,
\* 235, 248, 258, 269) and the ones development.rst names (lines 112-116).
EtcRequirements ==
    {"etc/requirements.pip", "etc/requirements-dev.pip",
     "etc/requirements-latest.pip", "etc/requirements-latest-dev.pip"}
ConfRequirements ==
    {"conf/requirements.pip", "conf/requirements-dev.pip",
     "conf/requirements-latest.pip", "conf/requirements-latest-dev.pip"}
RequirementFiles == EtcRequirements \cup ConfRequirements

\* What the files list in a fresh checkout: the files the Makefile reads
\* list the project's dependencies, and nothing is listed elsewhere.
CommittedRequirements ==
    [f \in RequirementFiles |-> IF f \in EtcRequirements THEN {"flask"} ELSE {}]

\* The files a developer adds the new dependency 'newlib' to before the run,
\* and to how many of them.
EditableRequirements ==
    {"etc/requirements.pip", "etc/requirements-dev.pip",
     "conf/requirements.pip", "conf/requirements-dev.pip"}
MaxEdits == 1

\* The requirements file each pip command reads.
RequirementsRead ==
    ("pip install -r etc/requirements.pip" :> "etc/requirements.pip")
    @@ ("pip install -r etc/requirements-dev.pip" :> "etc/requirements-dev.pip")
    @@ ("pip install -r etc/requirements.pip --upgrade" :> "etc/requirements.pip")
    @@ ("pip install -r etc/requirements-latest.pip --upgrade" :> "etc/requirements-latest.pip")
    @@ ("pip install -r etc/requirements-latest-dev.pip --upgrade"
            :> "etc/requirements-latest-dev.pip")

\* A package in ./dist and the run that generated it.
DistFile(name, run) == [name |-> name, run |-> run]

\* Line 434: python setup.py sdist bdist_wheel writes a source package and a wheel.
PackagesBuilt == {"mydojo-1.0.tar.gz", "mydojo-1.0-py3-none-any.whl"}

\* What ./dist may hold from earlier builds: a wheel of an older version and
\* a wheel of the current one.
EarlierPackages ==
    {DistFile("mydojo-0.9-py3-none-any.whl", "earlier"),
     DistFile("mydojo-1.0-py3-none-any.whl", "earlier")}

\* The shell commands among the commands a recipe line ran.
IsShell(e) == e.cmd = "sh"

\* Writing the packages `names` into ./dist in this run.
DistWrite(names) ==
    {f \in distFiles : f.name \notin names} \cup {DistFile(n, "this") : n \in names}

\* What ./dist may hold after a recipe line ran: rm --force --recursive
\* dist/ (line 326) empties it, setup.py (line 434) writes the packages, and
\* a command that fails may have done any part of its work.
DistEffects_RmKeeps(events) ==
    LET shell == SelectSeq(events, IsShell)
    IN  IF shell # <<>> /\ shell[1].arg = "python setup.py sdist bdist_wheel"
        THEN IF shell[1].ok THEN {DistWrite(PackagesBuilt)}
             ELSE {DistWrite(names) : names \in SUBSET PackagesBuilt}
        ELSE {distFiles}
DistEffects(events) ==
    LET shell == SelectSeq(events, IsShell)
    IN  IF shell = <<>> THEN {distFiles}
        ELSE IF shell[1].arg = "rm --force --recursive dist/"
        THEN IF shell[1].ok THEN {{}} ELSE SUBSET distFiles
        ELSE IF shell[1].arg = "python setup.py sdist bdist_wheel"
        THEN IF shell[1].ok THEN {DistWrite(PackagesBuilt)}
             ELSE {DistWrite(names) : names \in SUBSET PackagesBuilt}
        ELSE {distFiles}

\* The packages pip has installed after a recipe line ran: pip install -r
\* installs what the file lists, and a pip that fails may have installed
\* any part of it.
PipEffects(events) ==
    LET shell == SelectSeq(events, IsShell)
    IN  IF shell # <<>> /\ shell[1].arg \in DOMAIN RequirementsRead
        THEN LET listed == reqFiles[RequirementsRead[shell[1].arg]]
             IN  IF shell[1].ok THEN {pipInstalled \cup listed}
                 ELSE {pipInstalled \cup part : part \in SUBSET listed}
        ELSE {pipInstalled}

Frame(target) == [target |-> target, prereq |-> 1, line |-> 1]

MakeStart ==
    /\ makefileCfg \in MakefileCfgs
    /\ venv \in VenvStates
    /\ \E edited \in SUBSET EditableRequirements :
          /\ Cardinality(edited) <= MaxEdits
          /\ reqFiles = [f \in RequirementFiles |->
                            CommittedRequirements[f] \cup (IF f \in edited THEN {"newlib"} ELSE {})]
    /\ distFiles \in SUBSET EarlierPackages
    /\ pipInstalled = {}
    /\ makeGoal = ""
    /\ makeStack = <<>>
    /\ makeDone = {}
    /\ makeLog = <<>>
    /\ makeStatus = "none"

MakeIdle ==
    /\ makefileCfg = [present |-> FALSE, rules |-> <<>>]
    /\ venv = VenvAbsent
    /\ reqFiles = CommittedRequirements
    /\ distFiles = {}
    /\ pipInstalled = {}
    /\ makeGoal = ""
    /\ makeStack = <<>>
    /\ makeDone = {}
    /\ makeLog = <<>>
    /\ makeStatus = "idle"

\* Whether a file or directory of this name exists (of the names make is
\* asked about, the directory 'venv' is the only one to exist).
FileExists(name) == name = "venv" /\ venv.dir

\* make [goal]: make reads the makefiles (and stops when an included file
\* is missing), picks the default goal when none is named, and starts to
\* update the goal; a goal without a rule is an error unless the file exists.
MakeInvoke ==
    /\ makeStatus = "none"
    /\ \E g \in CommandLineGoals :
          /\ makeGoal' = g
          /\ IF ~makefileCfg.present
             THEN makeStatus' = "no_include" /\ UNCHANGED makeStack
             ELSE LET goal == IF g = "" THEN DefaultGoal(MakeRules) ELSE g
                  IN  IF goal \in DefinedTargets(MakeRules)
                      THEN makeStatus' = "running" /\ makeStack' = <<Frame(goal)>>
                      ELSE /\ makeStatus' = IF FileExists(goal) THEN "done" ELSE "no_rule"
                           /\ UNCHANGED makeStack
    /\ UNCHANGED <<makefileCfg, venv, makeDone, makeLog, makeFiles, makeOthers>>

\* The next prerequisite of the innermost target: make updates it first,
\* unless it was updated already in this run.
MakeDescend ==
    /\ makeStatus = "running"
    /\ makeStack # <<>>
    /\ LET n == Len(makeStack)
           top == makeStack[n]
           prereqs == PrereqsOf(MakeRules, top.target)
       IN  /\ top.prereq <= Len(prereqs)
           /\ LET p == prereqs[top.prereq]
                  advanced == [makeStack EXCEPT ![n].prereq = top.prereq + 1]
              IN  IF p \in makeDone \/ (p \notin DefinedTargets(MakeRules) /\ FileExists(p))
                  THEN makeStack' = advanced /\ UNCHANGED makeStatus
                  ELSE IF p \in DefinedTargets(MakeRules)
                  THEN makeStack' = Append(advanced, Frame(p)) /\ UNCHANGED makeStatus
                  ELSE makeStatus' = "no_rule" /\ UNCHANGED makeStack
    /\ UNCHANGED <<makefileCfg, venv, makeGoal, makeDone, makeLog, makeFiles, makeOthers>>

\* The next line of the innermost target's recipe, its prerequisites being
\* done: make runs it and stops the run when it fails, unless the line has
\* the prefix '-'.
MakeRunLine ==
    /\ makeStatus = "running"
    /\ makeStack # <<>>
    /\ LET n == Len(makeStack)
           top == makeStack[n]
           recipe == RecipeOf(MakeRules, top.target)
       IN  /\ top.prereq > Len(PrereqsOf(MakeRules, top.target))
           /\ top.line <= Len(recipe)
           /\ \E out \in RunLine(top.target, recipe[top.line]) :
                 /\ makeLog' = makeLog \o out.events
                 /\ venv' = out.venv
                 /\ distFiles' \in DistEffects(out.events)
                 /\ pipInstalled' \in PipEffects(out.events)
                 /\ IF out.ok \/ recipe[top.line].ignore
                    THEN /\ makeStack' = [makeStack EXCEPT ![n].line = top.line + 1]
                         /\ UNCHANGED makeStatus
                    ELSE /\ makeStatus' = "failed"
                         /\ UNCHANGED makeStack
    /\ UNCHANGED <<makefileCfg, makeGoal, makeDone, reqFiles, makeOthers>>

\* The recipe of the innermost target is through: the target is updated, and
\* with the goal updated the run is done.
MakeFinishTarget ==
    /\ makeStatus = "running"
    /\ makeStack # <<>>
    /\ LET n == Len(makeStack)
           top == makeStack[n]
       IN  /\ top.prereq > Len(PrereqsOf(MakeRules, top.target))
           /\ top.line > Len(RecipeOf(MakeRules, top.target))
           /\ makeDone' = makeDone \cup {top.target}
           /\ makeStack' = SubSeq(makeStack, 1, n - 1)
           /\ makeStatus' = IF n = 1 THEN "done" ELSE "running"
    /\ UNCHANGED <<makefileCfg, venv, makeGoal, makeLog, makeFiles, makeOthers>>

MakeNext ==
    \/ MakeInvoke
    \/ MakeDescend
    \/ MakeRunLine
    \/ MakeFinishTarget

\* The commands of the log that probed for a prerequisite.
IsProbe(e) == e.cmd = "command -v"
Probes == SelectSeq(makeLog, IsProbe)

\* The commands of the log that are steps of 'make develop': the creation of
\* the virtual environment and the installations.
IsStep(e) == e.cmd = "sh"
Steps == SelectSeq(makeLog, IsStep)

\* Line 149 and lines 160, 163, 166 of the Makefile.
VenvCreation == "python3 -m venv venv"
DevelopInstalls ==
    <<"pip install -r etc/requirements.pip",
      "pip install -r etc/requirements-dev.pip",
      "pip install -e .[dev]">>

\* C6: make without a target, Makefile.inc and Makefile.cfg included, runs
\* exactly the target 'help', and help only prints: every command that runs
\* is an echo of help's recipe, and the run ends with help printed in full
\* and nothing but 'default' and 'help' updated.
C6_NoTargetRunsHelp ==
    (makeGoal = "" /\ makeStatus \in {"running", "done", "failed", "no_rule"}) =>
        /\ makeStatus \in {"running", "done"}
        /\ \A k \in DOMAIN makeLog :
              makeLog[k] = Ran("help", "echo", HelpRecipe[k].arg, TRUE, FALSE)
        /\ makeDone \subseteq {"default", "help"}
        /\ \A k \in DOMAIN makeStack : makeStack[k].target \in {"default", "help"}
        /\ makeStatus = "done" =>
              (Len(makeLog) = Len(HelpRecipe) /\ makeDone = {"default", "help"})

C6_Witness ==
    /\ makeGoal = ""
    /\ makeStatus = "done"
    /\ makefileCfg.rules # <<>>
    /\ Len(makeLog) = Len(HelpRecipe)

\* C7: 'make help' prints the full list of the make targets: every name it
\* prints is a target of the Makefile or of Makefile.inc, and every target
\* defined there that a user may invoke (all but 'default' and 'FORCE') is
\* printed.
C7_HelpListsTargets ==
    (makeGoal = "help" /\ makeStatus = "done") =>
        LET printed == {makeLog[k].arg : k \in DOMAIN makeLog} \ {""}
            defined == DefinedTargets(ReadMakefile(Makefile, [present |-> TRUE, rules |-> <<>>]))
        IN  /\ printed \subseteq defined
            /\ (defined \ {"default", "FORCE"}) \subseteq printed

\* C8: every target the development documentation tells the developer to
\* make is a target defined in the Makefile.
C8_DocumentedTargetsDefined ==
    (makeGoal \in DocumentedTargets /\ makeStatus \notin {"none", "idle", "no_include"}) =>
        makeGoal \in DefinedTargets(MakeRules)

\* C9: 'make deps-prerequisites' probes python, pip, yarn, grunt and psql in
\* this order, stops with a failure at the first one that is missing, ends
\* well if and only if all five were found, and runs nothing but the probes
\* and echo.
C9_PrerequisitesChecked ==
    (makeGoal = "deps-prerequisites" /\ makeStatus \in {"running", "done", "failed", "no_rule"}) =>
        /\ makeStatus # "no_rule"
        /\ \A k \in DOMAIN makeLog : makeLog[k].cmd \in {"echo", "command -v"}
        /\ Len(Probes) <= Len(PrereqCommands)
        /\ \A k \in DOMAIN Probes : Probes[k].arg = PrereqCommands[k]
        /\ \A k \in DOMAIN Probes : k < Len(Probes) => Probes[k].ok
        /\ makeStatus = "done" <=>
              /\ makeStack = <<>>
              /\ Len(Probes) = Len(PrereqCommands)
              /\ \A k \in DOMAIN Probes : Probes[k].ok
        /\ makeStatus = "failed" <=>
              (Probes # <<>> /\ ~Probes[Len(Probes)].ok)

C9_Witness ==
    /\ makeGoal = "deps-prerequisites"
    /\ makeStatus = "failed"
    /\ Len(Probes) = 3
    /\ Probes[1].ok /\ Probes[2].ok /\ ~Probes[3].ok
    /\ makeLog[Len(makeLog)] = Probes[3]

\* C10: 'make develop' creates the virtual environment only when the
\* directory 'venv' does not exist, then installs etc/requirements.pip,
\* etc/requirements-dev.pip and the project in editable mode, in this order
\* and each inside the virtual environment, and a step that fails prevents
\* every later step from running.
C10_DevelopSteps ==
    /\ [][(makeGoal = "develop" /\ Len(Steps') > Len(Steps)
            /\ Steps'[Len(Steps')].arg = VenvCreation) => ~venv.dir]_vars
    /\ []((makeGoal = "develop" /\ makeStatus \in {"running", "done", "failed", "no_rule"}) =>
            LET created == Steps # <<>> /\ Steps[1].arg = VenvCreation
                installed == IF created THEN Tail(Steps) ELSE Steps
            IN  /\ Len(installed) <= Len(DevelopInstalls)
                /\ \A k \in DOMAIN installed :
                      installed[k].arg = DevelopInstalls[k] /\ installed[k].inVenv
                /\ \A k \in DOMAIN Steps : k < Len(Steps) => Steps[k].ok
                /\ makeStatus = "done" =>
                      /\ Len(installed) = Len(DevelopInstalls)
                      /\ \A k \in DOMAIN installed : installed[k].ok)

\* The commands of the log that are not echo, as <<target, command>> pairs.
IsCommand(e) == e.cmd # "echo"
Commands == SelectSeq(makeLog, IsCommand)
CommandNames == [k \in DOMAIN Commands |-> <<Commands[k].target, Commands[k].arg>>]

\* Whether sequence p is an initial part of sequence q.
IsInitialPart(p, q) == Len(p) <= Len(q) /\ p = SubSeq(q, 1, Len(p))

\* Whether a command of target t ran with the exit status ok.
RanWith(t, ok) == \E k \in DOMAIN Commands : Commands[k].target = t /\ Commands[k].ok = ok

\* C11: 'make check' runs pyflakes, pylint and the unit tests, in this order
\* and in every run; a failure of pyflakes or of pylint neither stops the run
\* nor fails it, and check fails if and only if nosetests fails.
C11_CheckRunsAll ==
    (makeGoal = "check" /\ makeStatus \in {"running", "done", "failed", "no_rule"}) =>
        /\ makeStatus # "no_rule"
        /\ IsInitialPart(CommandNames, <<<<"pyflakes", "python -m pyflakes">>,
                                         <<"pylint", "python -m pylint">>,
                                         <<"test", "nosetests">>>>)
        /\ makeStatus \in {"done", "failed"} => Len(Commands) = 3
        /\ makeStatus = "failed" <=> RanWith("test", FALSE)
        /\ makeStatus = "done" <=> (makeStack = <<>> /\ RanWith("test", TRUE))

C11_Witness ==
    /\ makeGoal = "check"
    /\ makeStatus = "done"
    /\ RanWith("pyflakes", FALSE)
    /\ RanWith("pylint", FALSE)
    /\ RanWith("test", TRUE)

\* C13: 'make pybabel-pull' extracts the translation strings and then
\* updates the catalogs, in this order; the update never runs when the
\* extraction fails, and the catalogs are never compiled.
C13_PullExtractsThenUpdates ==
    (makeGoal = "pybabel-pull" /\ makeStatus \in {"running", "done", "failed", "no_rule"}) =>
        /\ makeStatus # "no_rule"
        /\ IsInitialPart(CommandNames, <<<<"pybabel-extract", "pybabel extract">>,
                                         <<"pybabel-update", "pybabel update">>>>)
        /\ RanWith("pybabel-extract", FALSE) => Len(Commands) = 1 /\ makeStatus = "failed"
        /\ makeStatus = "done" =>
              (RanWith("pybabel-extract", TRUE) /\ RanWith("pybabel-update", TRUE))
        /\ "pybabel-compile" \notin makeDone
        /\ \A k \in DOMAIN makeStack : makeStack[k].target # "pybabel-compile"

C13_Witness ==
    /\ makeGoal = "pybabel-pull"
    /\ makeStatus = "failed"
    /\ RanWith("pybabel-extract", FALSE)
    /\ ~RanWith("pybabel-update", TRUE) /\ ~RanWith("pybabel-update", FALSE)

\* The installing and configuring steps of 'make deps'.
DepsSteps == {"deps-python", "deps-python-dev", "deps-webui", "deps-postgresql", "pybabel-compile"}

\* C15: in a run of 'make deps' no installing or configuring step starts
\* unless deps-prerequisites was completed before in the run; when a
\* prerequisite is missing, none of them runs.
C15_PrerequisitesFirst ==
    (makeGoal = "deps" /\ makeStatus \in {"running", "done", "failed", "no_rule"}) =>
        /\ makeStatus # "no_rule"
        /\ (\/ \E k \in DOMAIN makeStack : makeStack[k].target \in DepsSteps
            \/ \E k \in DOMAIN makeLog : makeLog[k].target \in DepsSteps
            \/ makeDone \cap DepsSteps # {})
           => /\ "deps-prerequisites" \in makeDone
              /\ Len(Probes) = Len(PrereqCommands)
              /\ \A k \in DOMAIN Probes : Probes[k].ok
        /\ (\E k \in DOMAIN Probes : ~Probes[k].ok) =>
              /\ makeStatus = "failed"
              /\ \A k \in DOMAIN makeLog : makeLog[k].target = "deps-prerequisites"
              /\ makeDone \cap DepsSteps = {}

C15_Witness ==
    /\ makeGoal = "deps"
    /\ makeStatus = "failed"
    /\ \E k \in DOMAIN Probes : ~Probes[k].ok
    /\ makeDone = {"FORCE"}

\* The commands 'make build-whl' runs, in the order of the Makefile.
BuildWhlCommands ==
    <<<<"clean-pycs", "find . -name *.pyc -delete">>,
      <<"clean-pycs", "find . -name *.pyo -delete">>,
      <<"clean-pycs", "find . -name *~ -delete">>,
      <<"clean-build-docs", "rm --force --recursive doc/build/">>,
      <<"clean-build-docs", "rm --force --recursive doc/source/_apidoc/">>,
      <<"clean-build-python", "rm --force --recursive build/">>,
      <<"clean-build-python", "rm --force --recursive dist/">>,
      <<"clean-build-python", "rm --force --recursive *.egg-info">>,
      <<"build-webui", "grunt webui">>,
      <<"build-package-whl", "python setup.py sdist bdist_wheel">>>>

\* C12: 'make build-whl' runs clean, build-webui and build-package-whl in
\* this order; after a successful run ./dist holds only the packages that
\* run generated, and packaging never runs when the web interface build fails.
C12_BuildWhlCleansFirst ==
    (makeGoal = "build-whl" /\ makeStatus \in {"running", "done", "failed", "no_rule"}) =>
        /\ makeStatus # "no_rule"
        /\ IsInitialPart(CommandNames, BuildWhlCommands)
        /\ \A k \in DOMAIN Commands : k < Len(Commands) => Commands[k].ok
        /\ RanWith("build-webui", FALSE) =>
              (makeStatus = "failed" /\ \A k \in DOMAIN makeLog : makeLog[k].target # "build-package-whl")
        /\ makeStatus = "done" =>
              /\ Len(Commands) = Len(BuildWhlCommands)
              /\ distFiles = {DistFile(n, "this") : n \in PackagesBuilt}

C12_Witness ==
    /\ makeGoal = "build-whl"
    /\ makeStatus = "done"
    /\ distFiles = {DistFile(n, "this") : n \in PackagesBuilt}
    /\ RanWith("build-package-whl", TRUE)

\* development.rst, lines 112-116 and 132-141: the file the developer is told
\* to list a dependency in, for the target that is to install it.
DocumentedRequirements ==
    [t \in {"deps-python", "deps-python-dev"} |->
        IF t = "deps-python" THEN "conf/requirements.pip" ELSE "conf/requirements-dev.pip"]

\* C14: a dependency listed in conf/requirements.pip is installed by 'make
\* deps-python' and one listed in conf/requirements-dev.pip by 'make
\* deps-python-dev': the file the documentation names is the file the
\* target reads.
C14_DocumentedRequirementsInstalled ==
    (makeGoal \in DOMAIN DocumentedRequirements /\ makeStatus = "done") =>
        /\ reqFiles[DocumentedRequirements[makeGoal]] \subseteq pipInstalled
        /\ \A k \in DOMAIN Commands :
              Commands[k].arg \in DOMAIN RequirementsRead =>
                  RequirementsRead[Commands[k].arg] = DocumentedRequirements[makeGoal]

(***************************************************************************)
(* SPECIFICATIONS                                                          *)
(***************************************************************************)

\* The site macros alone.
TplInit == TplStart /\ DbIdle /\ WsgiIdle /\ GruntIdle /\ MakeIdle
SpecMenu == TplInit /\ [][TplNext]_vars

\* The user detail page alone.
UserShowInit == UserShowStart /\ DbIdle /\ WsgiIdle /\ GruntIdle /\ MakeIdle
SpecUserShow == UserShowInit /\ [][UserShowNext]_vars

\* The layout's authentication submenu and alerts.
LayoutInit == LayoutStart /\ DbIdle /\ WsgiIdle /\ GruntIdle /\ MakeIdle
SpecLayout == LayoutInit /\ [][LayoutNext]_vars

\* mydojo-init.sh alone.
DbInit == DbStart /\ TplIdle /\ WsgiIdle /\ GruntIdle /\ MakeIdle
SpecInitDb == DbInit /\ [][DbNext]_vars

\* The WSGI script under Apache alone.
WsgiInit == WsgiStart /\ TplIdle /\ DbIdle /\ GruntIdle /\ MakeIdle
SpecWsgi == WsgiInit /\ [][WsgiNext]_vars

\* The Grunt tasks alone.
GruntInit == GruntStart /\ TplIdle /\ DbIdle /\ WsgiIdle /\ MakeIdle
SpecGrunt == GruntInit /\ [][GruntNext]_vars

\* make alone.
MakeInit == MakeStart /\ TplIdle /\ DbIdle /\ WsgiIdle /\ GruntIdle
SpecMake == MakeInit /\ [][MakeNext]_vars

====
